---- MODULE Spec2Model ----
(***************************************************************************)
(* A model of the pybroker event broker (src/broker/broker.py): the        *)
(* subscriber table, the per-namespace signature table, the notify flags,  *)
(* and register_subscriber / unregister_subscriber / emit / emit_async /   *)
(* set_flag_sates / clear and the weak-reference collection hook.          *)
(*                                                                         *)
(* Namespaces are strings; they are modelled as sequences of one-character *)
(* strings so that endswith, startswith and slicing are computed the way   *)
(* the code computes them.                                                 *)
(***************************************************************************)
EXTENDS Integers, Sequences, FiniteSets, TLC

VARIABLES
    _SUBSCRIBERS,           \* dict namespace -> list of Subscriber, in insertion order
    _NAMESPACE_SIGNATURES,  \* dict namespace -> parameter set, or None
    flags,                  \* the notify_on_* attributes of the Broker object
    alive,                  \* the callables that still have a strong owner
    nextSeq,                \* creation stamp of the next Subscriber object
    last,                   \* the last top-level call: its arguments, outcome and invocations
    widened,                \* history: the keys a callable taking **kwargs was registered
                            \* under since the last clear()
    task,                   \* the emit_async coroutine being stepped: where its loops
                            \* stand, and the subscribers it started and saw complete
    other                   \* a second emit_async coroutine, in flight at the same time

vars == <<_SUBSCRIBERS, _NAMESPACE_SIGNATURES, flags, alive, nextSeq, last, widened, task, other>>

-----------------------------------------------------------------------------
(* Strings as character sequences.                                         *)

Dot == <<".">>
Star == <<"*">>

\* str.startswith
StartsWith(s, prefix) ==
    /\ Len(prefix) <= Len(s)
    /\ SubSeq(s, 1, Len(prefix)) = prefix

\* str.endswith
EndsWith(s, suffix) ==
    /\ Len(suffix) <= Len(s)
    /\ SubSeq(s, Len(s) - Len(suffix) + 1, Len(s)) = suffix

\* s[:-n]
DropLast(s, n) == SubSeq(s, 1, Len(s) - n)

\* ".".join(segments)
RECURSIVE Join(_)
Join(segments) ==
    IF Len(segments) = 0 THEN <<>>
    ELSE IF Len(segments) = 1 THEN segments[1]
    ELSE segments[1] \o Dot \o Join(Tail(segments))

Range(s) == {s[i] : i \in DOMAIN s}

-----------------------------------------------------------------------------
(* The reserved notification namespaces.                                   *)

_NOTIFY_NAMESPACE_ROOT ==
    <<"b","r","o","k","e","r",".","n","o","t","i","f","y",".">>
BROKER_ON_SUBSCRIBER_ADDED ==
    _NOTIFY_NAMESPACE_ROOT \o <<"s","u","b","s","c","r","i","b","e","r",".","a","d","d","e","d">>
BROKER_ON_SUBSCRIBER_REMOVED ==
    _NOTIFY_NAMESPACE_ROOT \o <<"s","u","b","s","c","r","i","b","e","r",".","r","e","m","o","v","e","d">>
BROKER_ON_SUBSCRIBER_COLLECTED ==
    _NOTIFY_NAMESPACE_ROOT \o <<"s","u","b","s","c","r","i","b","e","r",".","c","o","l","l","e","c","t","e","d">>
BROKER_ON_EMIT ==
    _NOTIFY_NAMESPACE_ROOT \o <<"e","m","i","t",".","s","y","n","c">>
BROKER_ON_EMIT_ASYNC ==
    _NOTIFY_NAMESPACE_ROOT \o <<"e","m","i","t",".","a","s","y","n","c">>
BROKER_ON_EMIT_ALL ==
    _NOTIFY_NAMESPACE_ROOT \o <<"e","m","i","t",".","a","l","l">>
BROKER_ON_NAMESPACE_CREATED ==
    _NOTIFY_NAMESPACE_ROOT \o <<"n","a","m","e","s","p","a","c","e",".","c","r","e","a","t","e","d">>
BROKER_ON_NAMESPACE_DELETED ==
    _NOTIFY_NAMESPACE_ROOT \o <<"n","a","m","e","s","p","a","c","e",".","d","e","l","e","t","e","d">>

\* namespace.startswith(_NOTIFY_NAMESPACE_ROOT)
IsNotifyNamespace(namespace) == StartsWith(namespace, _NOTIFY_NAMESPACE_ROOT)

-----------------------------------------------------------------------------
(* Broker._matches                                                         *)

MatchesExactOnly(event_namespace, subscriber_namespace) ==
    event_namespace = subscriber_namespace

MatchesNoDot(event_namespace, subscriber_namespace) ==
    IF event_namespace = subscriber_namespace THEN TRUE
    ELSE IF EndsWith(subscriber_namespace, Dot \o Star)
         THEN StartsWith(event_namespace, DropLast(subscriber_namespace, 2))
         ELSE FALSE

_matches(event_namespace, subscriber_namespace) ==
    IF event_namespace = subscriber_namespace THEN TRUE
    ELSE IF EndsWith(subscriber_namespace, Dot \o Star)
         THEN LET root == DropLast(subscriber_namespace, 2)
              IN  StartsWith(event_namespace, root \o Dot)
         ELSE FALSE

-----------------------------------------------------------------------------
(* Callables.  A callable is known by its name; its declaration gives its   *)
(* parameter list (inspect.signature), whether it is a coroutine function   *)
(* (asyncio.iscoroutinefunction) and whether its body raises.               *)

Param(name, kind) == [name |-> name, kind |-> kind]

Callable(cb) ==
    CASE cb = "callback1" ->          \* def callback1(size, filename)
           [parameters |-> <<Param("size", "POSITIONAL_OR_KEYWORD"),
                             Param("filename", "POSITIONAL_OR_KEYWORD")>>,
            coroutine |-> FALSE, raises |-> FALSE]
      [] cb = "callback2" ->          \* def callback2(filename, *args, size)
           [parameters |-> <<Param("filename", "POSITIONAL_OR_KEYWORD"),
                             Param("args", "VAR_POSITIONAL"),
                             Param("size", "KEYWORD_ONLY")>>,
            coroutine |-> FALSE, raises |-> FALSE]
      [] cb = "wildcard_callback" ->  \* def wildcard_callback(filename, mode)
           [parameters |-> <<Param("filename", "POSITIONAL_OR_KEYWORD"),
                             Param("mode", "POSITIONAL_OR_KEYWORD")>>,
            coroutine |-> FALSE, raises |-> FALSE]
      [] cb = "flexible_callback" ->  \* def flexible_callback(**kwargs)
           [parameters |-> <<Param("kwargs", "VAR_KEYWORD")>>,
            coroutine |-> FALSE, raises |-> FALSE]
      [] cb = "async_callback" ->     \* async def async_callback(**kwargs)
           [parameters |-> <<Param("kwargs", "VAR_KEYWORD")>>,
            coroutine |-> TRUE, raises |-> FALSE]
      [] cb = "async_save" ->         \* async def async_save(filename, size)
           [parameters |-> <<Param("filename", "POSITIONAL_OR_KEYWORD"),
                             Param("size", "POSITIONAL_OR_KEYWORD")>>,
            coroutine |-> TRUE, raises |-> FALSE]
      [] cb = "failing_callback" ->   \* def failing_callback(**kwargs): raise ...
           [parameters |-> <<Param("kwargs", "VAR_KEYWORD")>>,
            coroutine |-> FALSE, raises |-> TRUE]
      [] cb = "on_notify" ->          \* def on_notify(using)
           [parameters |-> <<Param("using", "POSITIONAL_OR_KEYWORD")>>,
            coroutine |-> FALSE, raises |-> FALSE]
      [] cb = "on_data" ->            \* def on_data(data)
           [parameters |-> <<Param("data", "POSITIONAL_OR_KEYWORD")>>,
            coroutine |-> FALSE, raises |-> FALSE]
      [] cb = "reentrant_callback" -> \* def reentrant_callback(**kwargs): broker...
           [parameters |-> <<Param("kwargs", "VAR_KEYWORD")>>,
            coroutine |-> FALSE, raises |-> FALSE]

\* the body of the callable calls the broker: it registers subscribers or lets
\* go of callables before it returns
CallsBroker(cb) == cb = "reentrant_callback"

\* Optional[set[str]]: None, or a set of names
None == [none |-> TRUE, names |-> {}]
Names(S) == [none |-> FALSE, names |-> S]

\* Broker._get_callback_params
ParamsKeepVarPositional(cb) ==
    LET ps == Callable(cb).parameters
    IN  IF \E i \in DOMAIN ps : ps[i].kind = "VAR_KEYWORD"
        THEN None
        ELSE Names({ps[i].name : i \in DOMAIN ps})

_get_callback_params(cb) ==
    LET ps == Callable(cb).parameters
    IN  IF \E i \in DOMAIN ps : ps[i].kind = "VAR_KEYWORD"
        THEN None
        ELSE Names({ps[i].name : i \in {j \in DOMAIN ps : ps[j].kind # "VAR_POSITIONAL"}})

\* asyncio.iscoroutinefunction
iscoroutinefunction(cb) == Callable(cb).coroutine

\* Whether the call cb(**kwargs) binds: every named parameter is provided (none has
\* a default) and every provided name is a parameter, unless **kwargs takes it.
Binds(cb, provided) ==
    LET ps == Callable(cb).parameters
        named == {ps[i].name : i \in {j \in DOMAIN ps :
                     ps[j].kind \in {"POSITIONAL_OR_KEYWORD", "KEYWORD_ONLY"}}}
    IN  /\ named \subseteq provided
        /\ \/ provided \subseteq named
           \/ \E i \in DOMAIN ps : ps[i].kind = "VAR_KEYWORD"

-----------------------------------------------------------------------------
(* Subscriber records and the two dicts.                                   *)

\* Subscriber(weak_callback, priority, is_async, namespace); seq stamps the object
Subscriber(cb, priority, is_async, namespace, seq) ==
    [weak_callback |-> cb, priority |-> priority, is_async |-> is_async,
     namespace |-> namespace, seq |-> seq]

\* Subscriber.callback: the live callable, or "None" once collected
callback(sub, alv) == IF sub.weak_callback \in alv THEN sub.weak_callback ELSE "None"

\* namespace in d
HasKey(d, namespace) == \E i \in DOMAIN d : d[i].namespace = namespace

\* d[namespace]
Lookup(d, namespace) ==
    d[CHOOSE i \in DOMAIN d : d[i].namespace = namespace].subscribers

\* d[namespace] = subscribers   (a new key goes last, an old key keeps its place)
Store(d, namespace, subscribers) ==
    IF HasKey(d, namespace)
    THEN [i \in DOMAIN d |->
            IF d[i].namespace = namespace
            THEN [namespace |-> namespace, subscribers |-> subscribers]
            ELSE d[i]]
    ELSE Append(d, [namespace |-> namespace, subscribers |-> subscribers])

\* del d[namespace]
Delete(d, namespace) == SelectSeq(d, LAMBDA e : e.namespace # namespace)

\* d.keys()
Keys(d) == {d[i].namespace : i \in DOMAIN d}

\* _NAMESPACE_SIGNATURES.get(namespace)
SigGet(sigs, namespace) ==
    IF namespace \in DOMAIN sigs THEN sigs[namespace] ELSE None

SigSet(sigs, namespace, value) ==
    [k \in DOMAIN sigs \cup {namespace} |-> IF k = namespace THEN value ELSE sigs[k]]

SigDel(sigs, namespace) ==
    [k \in DOMAIN sigs \ {namespace} |-> sigs[k]]

\* every Subscriber object held by the table
AllSubscribers(d) ==
    UNION {Range(d[i].subscribers) : i \in DOMAIN d}

-----------------------------------------------------------------------------
(* sorted(subscribers, key=lambda s: s.priority, reverse=True): stable.    *)

RECURSIVE InsertByPriority(_, _)
InsertByPriority(sorted, s) ==
    IF sorted = <<>> THEN <<s>>
    ELSE IF Head(sorted).priority >= s.priority
         THEN <<Head(sorted)>> \o InsertByPriority(Tail(sorted), s)
         ELSE <<s>> \o sorted

Unsorted(subscribers) == subscribers

RECURSIVE sorted_subscribers(_)
sorted_subscribers(subscribers) ==
    IF subscribers = <<>> THEN <<>>
    ELSE InsertByPriority(
             sorted_subscribers(SubSeq(subscribers, 1, Len(subscribers) - 1)),
             subscribers[Len(subscribers)])

-----------------------------------------------------------------------------
(* Emitting.  An emit yields the invocations it made, in order, and how it  *)
(* ended: "ok", or the exception that left it.                             *)

\* **kwargs as a mapping from keyword names to values
KwValue == <<"v">>
Kwargs(names) == [n \in names |-> KwValue]
Using(namespace) == [n \in {"using"} |-> namespace]

Result(calls, outcome) == [calls |-> calls, outcome |-> outcome]

\* what a notification handler finds when it runs: the two dicts as they are
\* while the notification is emitted
View(d, sigs) == [taken |-> TRUE, subs |-> d, sigs |-> sigs]
NoView == [taken |-> FALSE, subs |-> <<>>, sigs |-> <<>>]

\* one call of a subscriber; `seen` is kept for the handlers of notifications
Invocation(sub, namespace, kwargs) ==
    [sub |-> sub, namespace |-> namespace, kwargs |-> kwargs, seen |-> NoView]

\* Broker._validate_emit_args: TRUE when it returns, FALSE when it raises
\* EmitArgumentError
ValidateExactOnly(d, sigs, namespace, kwargs) ==
    LET provided_args == DOMAIN kwargs
    IN  \A i \in DOMAIN d :
            (namespace = d[i].namespace) =>
                LET expected_params == SigGet(sigs, d[i].namespace)
                IN  expected_params.none \/ provided_args = expected_params.names

ValidateEveryKey(d, sigs, namespace, kwargs) ==
    LET provided_args == DOMAIN kwargs
    IN  \A i \in DOMAIN d :
            LET expected_params == SigGet(sigs, d[i].namespace)
            IN  expected_params.none \/ provided_args = expected_params.names

_validate_emit_args(d, sigs, namespace, kwargs) ==
    LET provided_args == DOMAIN kwargs
        matching_namespaces == {i \in DOMAIN d : _matches(namespace, d[i].namespace)}
    IN  \A i \in matching_namespaces :
            LET expected_params == SigGet(sigs, d[i].namespace)
            IN  expected_params.none \/ provided_args = expected_params.names

\* The subscribers the two nested for loops of emit visit, in visiting order: the
\* keys in dict order, each key's list sorted on its own.
RECURSIVE DispatchOrder(_, _)
DispatchOrder(d, namespace) ==
    IF d = <<>> THEN <<>>
    ELSE (IF _matches(namespace, Head(d).namespace)
          THEN sorted_subscribers(Head(d).subscribers)
          ELSE <<>>) \o DispatchOrder(Tail(d), namespace)

\* subscriber.callback(**kwargs): "ok", or the exception raised
CallOutcome(sub, kwargs, alv) ==
    IF callback(sub, alv) = "None" THEN "TypeError"                  \* None(**kwargs)
    ELSE IF ~Binds(callback(sub, alv), DOMAIN kwargs) THEN "TypeError" \* does not bind
    ELSE IF Callable(callback(sub, alv)).raises THEN "Error"
    ELSE "ok"

\* the invocation made by subscriber.callback(**kwargs), if the body of the
\* callable started to run
Ran(sub, namespace, kwargs, alv) ==
    IF callback(sub, alv) # "None" /\ Binds(callback(sub, alv), DOMAIN kwargs)
    THEN <<Invocation(sub, namespace, kwargs)>>
    ELSE <<>>

\* the invocations `calls`, followed by what happened next
Then(calls, next) == Result(calls \o next.calls, next.outcome)

RECURSIVE RunSubscribersCatching(_, _, _, _, _)
RunSubscribersCatching(subscribers, namespace, kwargs, alv, with_async) ==
    IF subscribers = <<>> THEN Result(<<>>, "ok")
    ELSE IF Head(subscribers).is_async /\ ~with_async
    THEN RunSubscribersCatching(Tail(subscribers), namespace, kwargs, alv, with_async)
    ELSE Then(Ran(Head(subscribers), namespace, kwargs, alv),
              RunSubscribersCatching(Tail(subscribers), namespace, kwargs, alv,
                                     with_async))

\* The loop body of emit over the visiting order; with_async is FALSE for emit
\* (async subscribers are skipped) and TRUE for emit_async (they are awaited).
RECURSIVE RunSubscribers(_, _, _, _, _)
RunSubscribers(subscribers, namespace, kwargs, alv, with_async) ==
    IF subscribers = <<>> THEN Result(<<>>, "ok")
    ELSE IF Head(subscribers).is_async /\ ~with_async
    THEN RunSubscribers(Tail(subscribers), namespace, kwargs, alv, with_async)
    ELSE IF CallOutcome(Head(subscribers), kwargs, alv) # "ok"
    THEN Result(Ran(Head(subscribers), namespace, kwargs, alv),
                CallOutcome(Head(subscribers), kwargs, alv))
    ELSE Then(Ran(Head(subscribers), namespace, kwargs, alv),
              RunSubscribers(Tail(subscribers), namespace, kwargs, alv, with_async))

RECURSIVE emit(_, _, _, _, _, _)

\* the result r of a notification emitted while the dicts are d and sigs
Observing(r, d, sigs) ==
    Result([i \in DOMAIN r.calls |-> [r.calls[i] EXCEPT !.seen = View(d, sigs)]],
           r.outcome)

\* self.emit(namespace=channel, using=namespace) when `wanted`
Notify(wanted, d, sigs, fl, alv, channel, namespace) ==
    IF wanted
    THEN Observing(emit(d, sigs, fl, alv, channel, Using(namespace)), d, sigs)
    ELSE Result(<<>>, "ok")

NotifyBeforeFanOut(r, wanted, d, sigs, fl, alv, channel, namespace) ==
    IF r.outcome # "ok" THEN r
    ELSE Result(Notify(wanted, d, sigs, fl, alv, channel, namespace).calls \o r.calls,
                Notify(wanted, d, sigs, fl, alv, channel, namespace).outcome)

\* the end of emit and of emit_async: after the fan-out r, the notification
AfterFanOut(r, wanted, d, sigs, fl, alv, channel, namespace) ==
    IF r.outcome # "ok" THEN r
    ELSE Then(r.calls, Notify(wanted, d, sigs, fl, alv, channel, namespace))

\* an emit that held back its notification only when the emitted namespace is
\* the emit channel itself, so that the emit of any other notification notifies
\* in its turn
EmitGuardedByChannel(d, sigs, fl, alv, namespace, kwargs) ==
    IF ~_validate_emit_args(d, sigs, namespace, kwargs)
    THEN Result(<<>>, "EmitArgumentError")
    ELSE AfterFanOut(
             RunSubscribers(DispatchOrder(d, namespace), namespace, kwargs, alv, FALSE),
             namespace # BROKER_ON_EMIT /\ (fl.notify_on_emit \/ fl.notify_on_emit_all),
             d, sigs, fl, alv, BROKER_ON_EMIT, namespace)

EmitCallingAsync(d, sigs, fl, alv, namespace, kwargs) ==
    IF ~_validate_emit_args(d, sigs, namespace, kwargs)
    THEN Result(<<>>, "EmitArgumentError")
    ELSE AfterFanOut(
             RunSubscribers(DispatchOrder(d, namespace), namespace, kwargs, alv, TRUE),
             ~IsNotifyNamespace(namespace) /\ (fl.notify_on_emit \/ fl.notify_on_emit_all),
             d, sigs, fl, alv, BROKER_ON_EMIT, namespace)

\* Broker.emit
emit(d, sigs, fl, alv, namespace, kwargs) ==
    IF ~_validate_emit_args(d, sigs, namespace, kwargs)
    THEN Result(<<>>, "EmitArgumentError")
    ELSE AfterFanOut(
             RunSubscribers(DispatchOrder(d, namespace), namespace, kwargs, alv, FALSE),
             ~IsNotifyNamespace(namespace) /\ (fl.notify_on_emit \/ fl.notify_on_emit_all),
             d, sigs, fl, alv, BROKER_ON_EMIT, namespace)

\* an emit_async that sent its notification to the emit.all channel when the
\* on_emit_all flag is what asked for it
EmitAsyncRoutingAll(d, sigs, fl, alv, namespace, kwargs) ==
    IF ~_validate_emit_args(d, sigs, namespace, kwargs)
    THEN Result(<<>>, "EmitArgumentError")
    ELSE AfterFanOut(
             RunSubscribers(DispatchOrder(d, namespace), namespace, kwargs, alv, TRUE),
             /\ ~IsNotifyNamespace(namespace)
             /\ (fl.notify_on_emit_async \/ fl.notify_on_emit_all),
             d, sigs, fl, alv,
             IF fl.notify_on_emit_async THEN BROKER_ON_EMIT_ASYNC ELSE BROKER_ON_EMIT_ALL,
             namespace)

\* Broker.emit_async, run to its completion
emit_async(d, sigs, fl, alv, namespace, kwargs) ==
    IF ~_validate_emit_args(d, sigs, namespace, kwargs)
    THEN Result(<<>>, "EmitArgumentError")
    ELSE AfterFanOut(
             RunSubscribers(DispatchOrder(d, namespace), namespace, kwargs, alv, TRUE),
             /\ ~IsNotifyNamespace(namespace)
             /\ (fl.notify_on_emit_async \/ fl.notify_on_emit_all),
             d, sigs, fl, alv, BROKER_ON_EMIT_ASYNC, namespace)

-----------------------------------------------------------------------------
(* emit_async as the coroutine it is.  Calling a coroutine-function          *)
(* subscriber starts it and suspends emit_async at the `await` until the    *)
(* subscriber has completed; other code may run meanwhile.  The task holds  *)
(* where the two for loops stand: the dict iterator (the dict size when it  *)
(* was made, the index of the key it is at), what is left of the sorted     *)
(* list of that key, and the subscribers started and completed so far; and, *)
(* for reference, `entry`: the subscribers the loops visit if the registry  *)
(* stays as it is at the call.                                              *)

Event(kind, sub) == [kind |-> kind, sub |-> sub]

Task(state, namespace, kwargs, first, size, events, outcome) ==
    [state |-> state, namespace |-> namespace, kwargs |-> kwargs, first |-> first,
     size |-> size, key |-> 0, rest |-> <<>>, events |-> events, outcome |-> outcome,
     notified |-> <<>>, entry |-> <<>>]

NoTask == Task("none", <<>>, <<>>, 0, 0, <<>>, "ok")

\* the invocations behind the subscriber-started events of task t
Started(t) ==
    [i \in 1..Len(SelectSeq(t.events, LAMBDA e : e.kind = "start")) |->
        Invocation(SelectSeq(t.events, LAMBDA e : e.kind = "start")[i].sub,
                   t.namespace, t.kwargs)]

RECURSIVE AsyncLoop(_, _, _, _, _)

StartWithoutAwait(d, sigs, fl, alv, t) ==
    AsyncLoop(d, sigs, fl, alv,
              [t EXCEPT !.rest = Tail(@),
                        !.events = Append(@, Event("start", Head(t.rest)))])

\* await subscriber.callback(**kwargs): the coroutine is started and emit_async
\* is suspended on it
AwaitCallback(d, sigs, fl, alv, t) ==
    [t EXCEPT !.state = "awaiting",
              !.events = Append(@, Event("start", Head(t.rest)))]

\* a call of the subscriber at the head of t.rest that raised
Raised(t, alv) ==
    [t EXCEPT !.state = "done",
              !.outcome = CallOutcome(Head(t.rest), t.kwargs, alv),
              !.events = IF Ran(Head(t.rest), t.namespace, t.kwargs, alv) # <<>>
                         THEN Append(@, Event("start", Head(t.rest)))
                         ELSE @]

\* the end of emit_async: n is what the notification did
Resolved(t, n) ==
    [t EXCEPT !.state = "done", !.outcome = n.outcome, !.notified = n.calls]

\* the two for loops of emit_async from where task t stands, up to the next
\* suspension or to the end of the call
AsyncLoop(d, sigs, fl, alv, t) ==
    IF t.rest # <<>>
    THEN IF CallOutcome(Head(t.rest), t.kwargs, alv) # "ok" THEN Raised(t, alv)
         ELSE IF Head(t.rest).is_async THEN AwaitCallback(d, sigs, fl, alv, t)
         ELSE AsyncLoop(d, sigs, fl, alv,
                        [t EXCEPT !.rest = Tail(@),
                                  !.events = @ \o <<Event("start", Head(t.rest)),
                                                    Event("end", Head(t.rest))>>])
    ELSE IF Len(d) # t.size            \* dictionary changed size during iteration
    THEN [t EXCEPT !.state = "done", !.outcome = "RuntimeError"]
    ELSE IF t.key = Len(d)
    THEN Resolved(t, Notify(/\ ~IsNotifyNamespace(t.namespace)
                            /\ (fl.notify_on_emit_async \/ fl.notify_on_emit_all),
                            d, sigs, fl, alv, BROKER_ON_EMIT_ASYNC, t.namespace))
    ELSE AsyncLoop(d, sigs, fl, alv,
                   [t EXCEPT !.key = @ + 1,
                             !.rest = IF _matches(t.namespace, d[t.key + 1].namespace)
                                      THEN sorted_subscribers(d[t.key + 1].subscribers)
                                      ELSE <<>>])

\* emit_async from its call to its first suspension
emit_async_called(d, sigs, fl, alv, seq, namespace, kwargs) ==
    IF ~_validate_emit_args(d, sigs, namespace, kwargs)
    THEN Task("done", namespace, kwargs, seq, Len(d), <<>>, "EmitArgumentError")
    ELSE AsyncLoop(d, sigs, fl, alv,
                   [Task("running", namespace, kwargs, seq, Len(d), <<>>, "ok")
                       EXCEPT !.entry = DispatchOrder(d, namespace)])

\* emit_async from the completion of the subscriber it awaits
emit_async_resumed(d, sigs, fl, alv, t) ==
    AsyncLoop(d, sigs, fl, alv,
              [t EXCEPT !.state = "running",
                        !.rest = Tail(@),
                        !.events = Append(@, Event("end", Head(t.rest)))])

-----------------------------------------------------------------------------
(* emit with a subscriber whose body calls the broker.  While emit is       *)
(* inside such a subscriber the registry may change under its loops; the    *)
(* task holds where the loops stand, as for emit_async.                     *)

RECURSIVE EmitLoop(_, _, _, _, _)

\* subscriber.callback(**kwargs) with a body that calls the broker: emit is
\* inside the subscriber until it returns
EnterCallback(d, sigs, fl, alv, t) ==
    [t EXCEPT !.state = "calling",
              !.events = Append(@, Event("start", Head(t.rest)))]

\* the two for loops of emit from where task t stands, up to the next subscriber
\* whose body calls the broker or to the end of the call
EmitLoop(d, sigs, fl, alv, t) ==
    IF t.rest # <<>>
    THEN IF Head(t.rest).is_async
         THEN EmitLoop(d, sigs, fl, alv, [t EXCEPT !.rest = Tail(@)])
         ELSE IF CallOutcome(Head(t.rest), t.kwargs, alv) # "ok" THEN Raised(t, alv)
         ELSE IF CallsBroker(callback(Head(t.rest), alv))
         THEN EnterCallback(d, sigs, fl, alv, t)
         ELSE EmitLoop(d, sigs, fl, alv,
                       [t EXCEPT !.rest = Tail(@),
                                 !.events = @ \o <<Event("start", Head(t.rest)),
                                                   Event("end", Head(t.rest))>>])
    ELSE IF Len(d) # t.size            \* dictionary changed size during iteration
    THEN [t EXCEPT !.state = "done", !.outcome = "RuntimeError"]
    ELSE IF t.key = Len(d)
    THEN Resolved(t, Notify(/\ ~IsNotifyNamespace(t.namespace)
                            /\ (fl.notify_on_emit \/ fl.notify_on_emit_all),
                            d, sigs, fl, alv, BROKER_ON_EMIT, t.namespace))
    ELSE EmitLoop(d, sigs, fl, alv,
                  [t EXCEPT !.key = @ + 1,
                            !.rest = IF _matches(t.namespace, d[t.key + 1].namespace)
                                     THEN sorted_subscribers(d[t.key + 1].subscribers)
                                     ELSE <<>>])

\* emit from its call to the first subscriber whose body calls the broker
emit_called(d, sigs, fl, alv, seq, namespace, kwargs) ==
    IF ~_validate_emit_args(d, sigs, namespace, kwargs)
    THEN Task("done", namespace, kwargs, seq, Len(d), <<>>, "EmitArgumentError")
    ELSE EmitLoop(d, sigs, fl, alv,
                  [Task("running", namespace, kwargs, seq, Len(d), <<>>, "ok")
                      EXCEPT !.entry = SelectSeq(DispatchOrder(d, namespace),
                                                 LAMBDA sub : ~sub.is_async)])

\* emit from the return of the subscriber it is inside of
emit_returned_to(d, sigs, fl, alv, t) ==
    EmitLoop(d, sigs, fl, alv,
             [t EXCEPT !.state = "running",
                       !.rest = Tail(@),
                       !.events = Append(@, Event("end", Head(t.rest)))])

-----------------------------------------------------------------------------
(* Registration, unregistration, collection.  Each yields the two dicts as  *)
(* the call leaves them, the invocations made by its notifications, and     *)
(* how it ended.                                                           *)

Effect(d, sigs, calls, outcome, appended) ==
    [subs |-> d, sigs |-> sigs, calls |-> calls, outcome |-> outcome,
     appended |-> appended]

\* the signature step of register_subscriber: the new signature table and whether
\* SignatureMismatchError is raised
SignatureStepOverwrite(sigs, namespace, callback_params) ==
    [sigs |-> SigSet(sigs, namespace, callback_params), raised |-> FALSE]

SignatureStepCrossChecked(sigs, namespace, callback_params) ==
    IF \E K \in DOMAIN sigs :
           /\ _matches(namespace, K) \/ _matches(K, namespace)
           /\ ~sigs[K].none /\ ~callback_params.none
           /\ sigs[K] # callback_params
    THEN [sigs |-> sigs, raised |-> TRUE]
    ELSE IF namespace \notin DOMAIN sigs
    THEN [sigs |-> SigSet(sigs, namespace, callback_params), raised |-> FALSE]
    ELSE IF sigs[namespace].none \/ callback_params.none
    THEN [sigs |-> SigSet(sigs, namespace, None), raised |-> FALSE]
    ELSE [sigs |-> sigs, raised |-> FALSE]

SignatureStepUnchecked(sigs, namespace, callback_params) ==
    IF namespace \notin DOMAIN sigs
    THEN [sigs |-> SigSet(sigs, namespace, callback_params), raised |-> FALSE]
    ELSE IF sigs[namespace].none \/ callback_params.none
    THEN [sigs |-> SigSet(sigs, namespace, None), raised |-> FALSE]
    ELSE [sigs |-> sigs, raised |-> FALSE]

SignatureStep(sigs, namespace, callback_params) ==
    IF namespace \notin DOMAIN sigs
    THEN [sigs |-> SigSet(sigs, namespace, callback_params), raised |-> FALSE]
    ELSE IF sigs[namespace].none \/ callback_params.none
    THEN [sigs |-> SigSet(sigs, namespace, None), raised |-> FALSE]
    ELSE IF sigs[namespace] # callback_params
    THEN [sigs |-> sigs, raised |-> TRUE]
    ELSE [sigs |-> sigs, raised |-> FALSE]

\* register_subscriber from the append on: d1 holds the key, `created` is what
\* the namespace-created notification did
RegisterAppendAlwaysNotifying(created, d1, sigs1, fl, alv, subscriber) ==
    IF created.outcome # "ok"
    THEN Effect(d1, sigs1, created.calls, created.outcome, FALSE)
    ELSE LET d2 == Store(d1, subscriber.namespace,
                         Append(Lookup(d1, subscriber.namespace), subscriber))
             added == Then(created.calls,
                           Notify(~IsNotifyNamespace(subscriber.namespace),
                                  d2, sigs1, fl, alv,
                                  BROKER_ON_SUBSCRIBER_ADDED, subscriber.namespace))
         IN  [subs |-> d2, sigs |-> sigs1, calls |-> added.calls,
              outcome |-> added.outcome, appended |-> TRUE]

RegisterAppendNotifyingFirst(created, d1, sigs1, fl, alv, subscriber) ==
    IF created.outcome # "ok"
    THEN Effect(d1, sigs1, created.calls, created.outcome, FALSE)
    ELSE LET d2 == Store(d1, subscriber.namespace,
                         Append(Lookup(d1, subscriber.namespace), subscriber))
             added == Then(created.calls,
                           Notify(/\ ~IsNotifyNamespace(subscriber.namespace)
                                  /\ fl.notify_on_subscribe,
                                  d1, sigs1, fl, alv,
                                  BROKER_ON_SUBSCRIBER_ADDED, subscriber.namespace))
         IN  [subs |-> d2, sigs |-> sigs1, calls |-> added.calls,
              outcome |-> added.outcome, appended |-> TRUE]

RegisterAppend(created, d1, sigs1, fl, alv, subscriber) ==
    IF created.outcome # "ok"
    THEN Effect(d1, sigs1, created.calls, created.outcome, FALSE)
    ELSE LET d2 == Store(d1, subscriber.namespace,
                         Append(Lookup(d1, subscriber.namespace), subscriber))
             added == Then(created.calls,
                           Notify(/\ ~IsNotifyNamespace(subscriber.namespace)
                                  /\ fl.notify_on_subscribe,
                                  d2, sigs1, fl, alv,
                                  BROKER_ON_SUBSCRIBER_ADDED, subscriber.namespace))
         IN  [subs |-> d2, sigs |-> sigs1, calls |-> added.calls,
              outcome |-> added.outcome, appended |-> TRUE]

\* register_subscriber from the key creation on: d1 is the table with the key
RegisterKey(fresh, d1, sigs1, fl, alv, subscriber) ==
    RegisterAppend(
        Notify(/\ fresh
               /\ ~IsNotifyNamespace(subscriber.namespace)
               /\ fl.notify_on_new_namespace,
               d1, sigs1, fl, alv, BROKER_ON_NAMESPACE_CREATED, subscriber.namespace),
        d1, sigs1, fl, alv, subscriber)

\* a register_subscriber that appended the subscriber before it compared the
\* signatures
RegisterRejectedLate(step, d, sigs, fl, alv, subscriber) ==
    IF step.raised
    THEN Effect(IF HasKey(d, subscriber.namespace)
                THEN Store(d, subscriber.namespace,
                           Append(Lookup(d, subscriber.namespace), subscriber))
                ELSE d,
                sigs, <<>>, "SignatureMismatchError", FALSE)
    ELSE RegisterKey(~HasKey(d, subscriber.namespace),
                     IF HasKey(d, subscriber.namespace) THEN d
                     ELSE Store(d, subscriber.namespace, <<>>),
                     step.sigs, fl, alv, subscriber)

\* register_subscriber after the signature step
RegisterChecked(step, d, sigs, fl, alv, subscriber) ==
    IF step.raised
    THEN Effect(d, sigs, <<>>, "SignatureMismatchError", FALSE)
    ELSE RegisterKey(~HasKey(d, subscriber.namespace),
                     IF HasKey(d, subscriber.namespace) THEN d
                     ELSE Store(d, subscriber.namespace, <<>>),
                     step.sigs, fl, alv, subscriber)

\* Broker.register_subscriber
register_subscriber(d, sigs, fl, alv, seq, namespace, cb, priority) ==
    RegisterChecked(SignatureStep(sigs, namespace, _get_callback_params(cb)),
                    d, sigs, fl, alv,
                    Subscriber(cb, priority, iscoroutinefunction(cb), namespace, seq))

\* unregister_subscriber from the emptiness test on: d1 is the filtered table,
\* `removed` is what the subscriber-removed notification did
UnregisterDroppingSignature(removed, d1, sigs, fl, alv, namespace) ==
    IF removed.outcome # "ok"
    THEN Effect(d1, sigs, removed.calls, removed.outcome, FALSE)
    ELSE LET sigs2 == IF namespace \in DOMAIN sigs THEN SigDel(sigs, namespace) ELSE sigs
         IN  IF Lookup(d1, namespace) # <<>>
             THEN Effect(d1, sigs2, removed.calls, removed.outcome, FALSE)
             ELSE Effect(Delete(d1, namespace), sigs2, removed.calls, "ok", FALSE)

UnregisterKeepingSignature(removed, d1, sigs, fl, alv, namespace) ==
    IF removed.outcome # "ok" \/ Lookup(d1, namespace) # <<>>
    THEN Effect(d1, sigs, removed.calls, removed.outcome, FALSE)
    ELSE Effect(Delete(d1, namespace), sigs, removed.calls, "ok", FALSE)

UnregisterCascade(removed, d1, sigs, fl, alv, namespace) ==
    IF removed.outcome # "ok" \/ Lookup(d1, namespace) # <<>>
    THEN Effect(d1, sigs, removed.calls, removed.outcome, FALSE)
    ELSE LET sigs2 == IF namespace \in DOMAIN sigs THEN SigDel(sigs, namespace) ELSE sigs
             deleted == Then(removed.calls,
                             Notify(/\ ~IsNotifyNamespace(namespace)
                                    /\ fl.notify_on_del_namespace,
                                    Delete(d1, namespace), sigs2, fl, alv,
                                    BROKER_ON_NAMESPACE_DELETED, namespace))
         IN  [subs |-> Delete(d1, namespace), sigs |-> sigs2, calls |-> deleted.calls,
              outcome |-> deleted.outcome, appended |-> FALSE]

\* unregister_subscriber after the list of the key was filtered
UnregisterFilteredUnguarded(d1, sigs, fl, alv, namespace) ==
    UnregisterCascade(
        Notify(fl.notify_on_unsubscribe,
               d1, sigs, fl, alv, BROKER_ON_SUBSCRIBER_REMOVED, namespace),
        d1, sigs, fl, alv, namespace)

UnregisterFiltered(d1, sigs, fl, alv, namespace) ==
    UnregisterCascade(
        Notify(~IsNotifyNamespace(namespace) /\ fl.notify_on_unsubscribe,
               d1, sigs, fl, alv, BROKER_ON_SUBSCRIBER_REMOVED, namespace),
        d1, sigs, fl, alv, namespace)

UnregisterFirstOnly(d, sigs, fl, alv, namespace, cb) ==
    IF ~HasKey(d, namespace) THEN Effect(d, sigs, <<>>, "ok", FALSE)
    ELSE UnregisterFiltered(
             Store(d, namespace,
                   SelectSeq(Lookup(d, namespace),
                             LAMBDA sub :
                                 \/ callback(sub, alv) # cb
                                 \/ \E older \in Range(Lookup(d, namespace)) :
                                        callback(older, alv) = cb /\ older.seq < sub.seq)),
             sigs, fl, alv, namespace)

\* Broker.unregister_subscriber
unregister_subscriber(d, sigs, fl, alv, namespace, cb) ==
    IF ~HasKey(d, namespace) THEN Effect(d, sigs, <<>>, "ok", FALSE)
    ELSE UnregisterFiltered(
             Store(d, namespace,
                   SelectSeq(Lookup(d, namespace), LAMBDA sub : callback(sub, alv) # cb)),
             sigs, fl, alv, namespace)

\* a cleanup that notified whatever the on_collected flag says
CollectedNotifyUnflagged(d1, sigs, fl, alv, namespace) ==
    [subs |-> d1, sigs |-> sigs,
     calls |-> Notify(~IsNotifyNamespace(namespace),
                      d1, sigs, fl, alv, BROKER_ON_SUBSCRIBER_COLLECTED, namespace).calls,
     outcome |-> "ok", appended |-> FALSE]

\* _on_callback_collected after the list of the key was filtered
CollectedNotify(d1, sigs, fl, alv, namespace) ==
    [subs |-> d1, sigs |-> sigs,
     calls |-> Notify(fl.notify_on_collected /\ ~IsNotifyNamespace(namespace),
                      d1, sigs, fl, alv, BROKER_ON_SUBSCRIBER_COLLECTED, namespace).calls,
     outcome |-> "ok", appended |-> FALSE]

CollectedDroppingKey(d, sigs, fl, alv, namespace) ==
    CollectedNotify(
        IF ~HasKey(d, namespace) THEN d
        ELSE IF \A sub \in Range(Lookup(d, namespace)) : callback(sub, alv) = "None"
        THEN Delete(d, namespace)
        ELSE Store(d, namespace,
                   SelectSeq(Lookup(d, namespace), LAMBDA sub : callback(sub, alv) # "None")),
        sigs, fl, alv, namespace)

\* Broker._on_callback_collected, called by a weak reference whose referent died;
\* what it raises is swallowed by the weak-reference machinery.
_on_callback_collected(d, sigs, fl, alv, namespace) ==
    CollectedNotify(
        IF HasKey(d, namespace)
        THEN Store(d, namespace,
                   SelectSeq(Lookup(d, namespace), LAMBDA sub : callback(sub, alv) # "None"))
        ELSE d,
        sigs, fl, alv, namespace)

\* The weak references to cb held by the table, the most recently created first:
\* the order in which their cleanup callbacks run.
RECURSIVE NewestFirst(_)
NewestFirst(subs) ==
    IF subs = {} THEN <<>>
    ELSE LET newest == CHOOSE s \in subs : \A t \in subs : t.seq <= s.seq
         IN  <<newest>> \o NewestFirst(subs \ {newest})

RECURSIVE RunCleanups(_, _, _, _, _)

\* the cleanups after the first: `one` is what the first did
CleanupsAfter(one, refs, sigs, fl, alv) ==
    LET rest == RunCleanups(refs, one.subs, sigs, fl, alv)
    IN  [subs |-> rest.subs, sigs |-> sigs, calls |-> one.calls \o rest.calls,
         outcome |-> "ok", appended |-> FALSE]

RunCleanups(refs, d, sigs, fl, alv) ==
    IF refs = <<>> THEN Effect(d, sigs, <<>>, "ok", FALSE)
    ELSE CleanupsAfter(_on_callback_collected(d, sigs, fl, alv, Head(refs).namespace),
                       Tail(refs), sigs, fl, alv)

\* the last owner of cb lets go of it
collect(d, sigs, fl, alv, cb) ==
    RunCleanups(NewestFirst({s \in AllSubscribers(d) : s.weak_callback = cb}),
                d, sigs, fl, alv \ {cb})

-----------------------------------------------------------------------------
(* The notify flags.                                                       *)

FlagNames == {"on_subscribe", "on_unsubscribe", "on_collected", "on_emit",
              "on_emit_async", "on_emit_all", "on_new_namespace", "on_del_namespace"}

\* Broker.__init__
InitialFlags ==
    [notify_on_all |-> FALSE, notify_on_subscribe |-> FALSE,
     notify_on_unsubscribe |-> FALSE, notify_on_collected |-> FALSE,
     notify_on_emit |-> FALSE, notify_on_emit_async |-> FALSE,
     notify_on_emit_all |-> FALSE, notify_on_new_namespace |-> FALSE,
     notify_on_del_namespace |-> FALSE]

\* Broker.set_flag_sates; `on` is the set of flag arguments passed as True, every
\* other argument takes its default, False
SetFlagsAccumulating(fl, on) ==
    [fl EXCEPT !.notify_on_subscribe = @ \/ "on_subscribe" \in on,
               !.notify_on_unsubscribe = @ \/ "on_unsubscribe" \in on,
               !.notify_on_collected = @ \/ "on_collected" \in on,
               !.notify_on_emit = @ \/ "on_emit" \in on,
               !.notify_on_emit_async = @ \/ "on_emit_async" \in on,
               !.notify_on_emit_all = @ \/ "on_emit_all" \in on,
               !.notify_on_new_namespace = @ \/ "on_new_namespace" \in on,
               !.notify_on_del_namespace = @ \/ "on_del_namespace" \in on]

set_flag_sates(fl, on) ==
    [fl EXCEPT !.notify_on_subscribe = "on_subscribe" \in on,
               !.notify_on_unsubscribe = "on_unsubscribe" \in on,
               !.notify_on_collected = "on_collected" \in on,
               !.notify_on_emit = "on_emit" \in on,
               !.notify_on_emit_async = "on_emit_async" \in on,
               !.notify_on_emit_all = "on_emit_all" \in on,
               !.notify_on_new_namespace = "on_new_namespace" \in on,
               !.notify_on_del_namespace = "on_del_namespace" \in on]

-----------------------------------------------------------------------------
(* Broker.to_string: the JSON object, one member per key, each an array of  *)
(* one string per subscriber record, given here by the parts it is          *)
(* formatted from.                                                          *)

DEAD_REFERENCE == "<dead reference>"

\* f"{info}{priority_str}{async_str}"
SubscriberInfo(sub, alv) ==
    [info |-> IF callback(sub, alv) = "None" THEN DEAD_REFERENCE ELSE callback(sub, alv),
     priority_str |-> IF sub.priority # 0 THEN <<"priority", sub.priority>> ELSE <<>>,
     async_str |-> IF sub.is_async THEN "[async]" ELSE ""]

to_string(d, alv) ==
    [namespace \in Keys(d) |->
        [i \in DOMAIN Lookup(d, namespace) |-> SubscriberInfo(Lookup(d, namespace)[i], alv)]]

-----------------------------------------------------------------------------
(* The top-level calls a client makes.                                     *)

\* at most this many Subscriber objects are created in one run
MaxSubscribers == 3

Call(op, namespace, cb, priority, kwargs, outcome, calls) ==
    [op |-> op, namespace |-> namespace, callback |-> cb, priority |-> priority,
     kwargs |-> kwargs, outcome |-> outcome, calls |-> calls]

NoCall == Call("none", <<>>, "None", 0, <<>>, "ok", <<>>)

\* the state a registration or unregistration r leaves
Leaves(r) ==
    /\ _SUBSCRIBERS' = r.subs
    /\ _NAMESPACE_SIGNATURES' = r.sigs
    /\ nextSeq' = IF r.appended THEN nextSeq + 1 ELSE nextSeq

\* broker.register_subscriber(namespace, cb, priority)
Registered(r, namespace, cb, priority) ==
    /\ Leaves(r)
    /\ widened' = IF r.appended /\ _get_callback_params(cb).none
                  THEN widened \cup {namespace}
                  ELSE widened
    /\ last' = Call("register_subscriber", namespace, cb, priority, <<>>,
                    r.outcome, r.calls)

Register(namespaces, priorities) ==
    \E namespace \in namespaces, cb \in alive, priority \in priorities :
        /\ nextSeq <= MaxSubscribers
        /\ Registered(register_subscriber(_SUBSCRIBERS, _NAMESPACE_SIGNATURES, flags,
                                          alive, nextSeq, namespace, cb, priority),
                      namespace, cb, priority)
        /\ UNCHANGED <<flags, alive, task, other>>

\* broker.unregister_subscriber(namespace, cb)
Unregistered(r, namespace, cb) ==
    /\ Leaves(r)
    /\ last' = Call("unregister_subscriber", namespace, cb, 0, <<>>, r.outcome, r.calls)

Unregister(namespaces) ==
    \E namespace \in namespaces, cb \in alive :
        /\ Unregistered(unregister_subscriber(_SUBSCRIBERS, _NAMESPACE_SIGNATURES, flags,
                                              alive, namespace, cb),
                        namespace, cb)
        /\ UNCHANGED <<flags, alive, widened, task, other>>

\* the record of an emit that ended as r
Emitted(op, r, namespace, kwargs) ==
    last' = Call(op, namespace, "None", 0, kwargs, r.outcome, r.calls)

\* broker.emit(namespace, **kwargs)
Emit(namespaces, keywords) ==
    \E namespace \in namespaces, names \in keywords :
        /\ Emitted("emit",
                   emit(_SUBSCRIBERS, _NAMESPACE_SIGNATURES, flags, alive,
                        namespace, Kwargs(names)),
                   namespace, Kwargs(names))
        /\ UNCHANGED <<_SUBSCRIBERS, _NAMESPACE_SIGNATURES, flags, alive, nextSeq, widened, task, other>>

\* await broker.emit_async(namespace, **kwargs)
EmitAsync(namespaces, keywords) ==
    \E namespace \in namespaces, names \in keywords :
        /\ Emitted("emit_async",
                   emit_async(_SUBSCRIBERS, _NAMESPACE_SIGNATURES, flags, alive,
                              namespace, Kwargs(names)),
                   namespace, Kwargs(names))
        /\ UNCHANGED <<_SUBSCRIBERS, _NAMESPACE_SIGNATURES, flags, alive, nextSeq, widened, task, other>>

\* an emit_async call that ended with the error another call raised while it
\* was suspended
BystanderAborted(t, stepped) ==
    IF t.state = "awaiting" /\ stepped.state = "done" /\ stepped.outcome # "ok"
    THEN [t EXCEPT !.state = "done", !.outcome = stepped.outcome]
    ELSE t

\* The in-flight emit_async call t after another emit_async call took a step
\* that left it as `stepped`: the loops, the sorted list and the exception of a
\* call are local to its coroutine, so t stands where it stood.
Bystander(t, stepped) == t

\* emit_async stepped: task t after the step
Stepped(t) ==
    /\ task' = t
    /\ other' = Bystander(other, t)
    /\ last' = Call("emit_async", t.namespace, "None", 0, t.kwargs,
                    IF t.state = "awaiting" THEN "pending" ELSE t.outcome,
                    Started(t) \o t.notified)

\* a task calls broker.emit_async(namespace, **kwargs) and awaits it
AsyncCall(namespaces, keywords) ==
    \E namespace \in namespaces, names \in keywords :
        /\ task.state # "awaiting"
        /\ Stepped(emit_async_called(_SUBSCRIBERS, _NAMESPACE_SIGNATURES, flags, alive,
                                     nextSeq, namespace, Kwargs(names)))
        /\ UNCHANGED <<_SUBSCRIBERS, _NAMESPACE_SIGNATURES, flags, alive, nextSeq, widened>>

\* the subscriber emit_async awaits completes
AsyncResume ==
    /\ task.state = "awaiting"
    /\ Stepped(emit_async_resumed(_SUBSCRIBERS, _NAMESPACE_SIGNATURES, flags, alive, task))
    /\ UNCHANGED <<_SUBSCRIBERS, _NAMESPACE_SIGNATURES, flags, alive, nextSeq, widened>>

\* the second emit_async stepped: task t after the step
SteppedBeside(t) ==
    /\ other' = t
    /\ task' = Bystander(task, t)
    /\ last' = Call("emit_async", t.namespace, "None", 0, t.kwargs,
                    IF t.state = "awaiting" THEN "pending" ELSE t.outcome,
                    Started(t) \o t.notified)

\* a second task calls broker.emit_async(namespace, **kwargs) and awaits it
ConcurrentCall(namespaces, keywords) ==
    \E namespace \in namespaces, names \in keywords :
        /\ other.state # "awaiting"
        /\ SteppedBeside(emit_async_called(_SUBSCRIBERS, _NAMESPACE_SIGNATURES, flags,
                                           alive, nextSeq, namespace, Kwargs(names)))
        /\ UNCHANGED <<_SUBSCRIBERS, _NAMESPACE_SIGNATURES, flags, alive, nextSeq, widened>>

\* the subscriber the second emit_async awaits completes
ConcurrentResume ==
    /\ other.state = "awaiting"
    /\ SteppedBeside(emit_async_resumed(_SUBSCRIBERS, _NAMESPACE_SIGNATURES, flags, alive,
                                        other))
    /\ UNCHANGED <<_SUBSCRIBERS, _NAMESPACE_SIGNATURES, flags, alive, nextSeq, widened>>

\* broker.register_subscriber while no emit_async is suspended
RegisterIdle(namespaces, priorities) ==
    /\ task.state # "awaiting"
    /\ other.state # "awaiting"
    /\ Register(namespaces, priorities)

\* emit stepped: task t after the step
SteppedEmit(t) ==
    /\ task' = t
    /\ last' = Call("emit", t.namespace, "None", 0, t.kwargs,
                    IF t.state = "calling" THEN "pending" ELSE t.outcome,
                    Started(t) \o t.notified)

\* broker.emit(namespace, **kwargs), up to the first subscriber whose body calls
\* the broker
EmitCall(namespaces, keywords) ==
    \E namespace \in namespaces, names \in keywords :
        /\ task.state \notin {"awaiting", "calling"}
        /\ SteppedEmit(emit_called(_SUBSCRIBERS, _NAMESPACE_SIGNATURES, flags, alive,
                                   nextSeq, namespace, Kwargs(names)))
        /\ UNCHANGED <<_SUBSCRIBERS, _NAMESPACE_SIGNATURES, flags, alive, nextSeq, widened, other>>

\* the subscriber emit is inside of returns
EmitReturn ==
    /\ task.state = "calling"
    /\ SteppedEmit(emit_returned_to(_SUBSCRIBERS, _NAMESPACE_SIGNATURES, flags, alive,
                                    task))
    /\ UNCHANGED <<_SUBSCRIBERS, _NAMESPACE_SIGNATURES, flags, alive, nextSeq, widened, other>>

\* the callable whose body emit is inside of: the call holds a reference to it
Held(t) == IF t.state = "calling" THEN {Head(t.rest).weak_callback} ELSE {}

\* the last strong reference to a registered callable goes away
Collected(r, cb) ==
    /\ _SUBSCRIBERS' = r.subs
    /\ last' = Call("collect", <<>>, cb, 0, <<>>, r.outcome, r.calls)

Collect ==
    \E cb \in alive :
        /\ \E s \in AllSubscribers(_SUBSCRIBERS) : s.weak_callback = cb
        /\ Collected(collect(_SUBSCRIBERS, _NAMESPACE_SIGNATURES, flags, alive, cb), cb)
        /\ alive' = alive \ {cb}
        /\ UNCHANGED <<_NAMESPACE_SIGNATURES, flags, nextSeq, widened, task, other>>

\* the same, of a callable no call in progress holds
CollectUnheld ==
    \E cb \in alive \ Held(task) :
        /\ \E s \in AllSubscribers(_SUBSCRIBERS) : s.weak_callback = cb
        /\ Collected(collect(_SUBSCRIBERS, _NAMESPACE_SIGNATURES, flags, alive, cb), cb)
        /\ alive' = alive \ {cb}
        /\ UNCHANGED <<_NAMESPACE_SIGNATURES, flags, nextSeq, widened, task, other>>

\* broker.set_flag_sates(...)
SetFlagStates(choices) ==
    \E on \in choices :
        /\ flags' = set_flag_sates(flags, on)
        /\ last' = Call("set_flag_sates", <<>>, "None", 0, [n \in on |-> TRUE], "ok", <<>>)
        /\ UNCHANGED <<_SUBSCRIBERS, _NAMESPACE_SIGNATURES, alive, nextSeq, widened, task, other>>

\* broker.clear()
Clear ==
    /\ _SUBSCRIBERS' = <<>>
    /\ _NAMESPACE_SIGNATURES' = <<>>
    /\ last' = Call("clear", <<>>, "None", 0, <<>>, "ok", <<>>)
    /\ widened' = {}
    /\ UNCHANGED <<flags, alive, nextSeq, task, other>>

\* the state after import: empty dicts, every flag off; the client's callables
\* are one of the given sets
InitWith(callables) ==
    /\ _SUBSCRIBERS = <<>>
    /\ _NAMESPACE_SIGNATURES = <<>>
    /\ flags = InitialFlags
    /\ alive \in callables
    /\ nextSeq = 1
    /\ last = NoCall
    /\ widened = {}
    /\ task = NoTask
    /\ other = NoTask

-----------------------------------------------------------------------------
(* The namespaces the clients of the specifications below use.             *)

FILE_SAVE == <<"f","i","l","e",".","s","a","v","e">>
FILE_DELETE == <<"f","i","l","e",".","d","e","l","e","t","e">>
FILE_ALL == <<"f","i","l","e",".","*">>
FILE == <<"f","i","l","e">>
\* "broker.notify.*": a wildcard key covering every reserved channel
BROKER_NOTIFY_ALL == _NOTIFY_NAMESPACE_ROOT \o Star

-----------------------------------------------------------------------------
(* SpecPriority: one key, three priorities.                                *)

PriorityCallables == {{"flexible_callback", "async_callback"}}
PriorityNamespaces == {FILE_SAVE}
PriorityKeywords == {{}}
PriorityPriorities == {1, 5, 10}

InitPriority == InitWith(PriorityCallables)

NextPriority ==
    \/ Register(PriorityNamespaces, PriorityPriorities)
    \/ Unregister(PriorityNamespaces)
    \/ Emit(PriorityNamespaces, PriorityKeywords)
    \/ EmitAsync(PriorityNamespaces, PriorityKeywords)
    \/ Collect
    \/ Clear

SpecPriority == InitPriority /\ [][NextPriority]_vars

-----------------------------------------------------------------------------
(* SpecDispatch: fan-out over two overlapping keys, an exact one and a      *)
(* wildcard one; callables that take any keywords, one of them a coroutine  *)
(* function, one of them raising.                                          *)

DispatchCallables == {{"flexible_callback", "async_callback"},
                      {"flexible_callback", "failing_callback"}}
DispatchNamespaces == {FILE_SAVE, FILE_ALL}
DispatchEmits == {FILE_SAVE, FILE_DELETE}
DispatchKeywords == {{}}
DispatchPriorities == {0, 5}

InitDispatch == InitWith(DispatchCallables)

NextDispatch ==
    \/ Register(DispatchNamespaces, DispatchPriorities)
    \/ Unregister(DispatchNamespaces)
    \/ Emit(DispatchEmits, DispatchKeywords)
    \/ EmitAsync(DispatchEmits, DispatchKeywords)
    \/ Collect
    \/ Clear

SpecDispatch == InitDispatch /\ [][NextDispatch]_vars

-----------------------------------------------------------------------------
(* SpecMatch: _matches applied to every pair of namespaces built from at    *)
(* most MaxSegments segments.                                              *)

MaxSegments == 3
MatchSegments == {<<"a">>, <<"b">>, <<"a","b">>, Star}
MatchNamespaces ==
    UNION {[1..n -> MatchSegments] : n \in 1..MaxSegments}

InitMatch ==
    /\ _SUBSCRIBERS = <<>>
    /\ _NAMESPACE_SIGNATURES = <<>>
    /\ flags = InitialFlags
    /\ alive = {}
    /\ nextSeq = 1
    /\ widened = {}
    /\ task = NoTask
    /\ other = NoTask
    /\ \E e \in MatchNamespaces, p \in MatchNamespaces :
           last = [op |-> "input", event |-> e, pattern |-> p]

Match ==
    /\ last.op = "input"
    /\ last' = [op |-> "_matches", event |-> last.event, pattern |-> last.pattern,
                result |-> _matches(Join(last.event), Join(last.pattern))]
    /\ UNCHANGED <<_SUBSCRIBERS, _NAMESPACE_SIGNATURES, flags, alive, nextSeq, widened, task, other>>

NextMatch == Match

SpecMatch == InitMatch /\ [][NextMatch]_vars

-----------------------------------------------------------------------------
(* SpecSignature: callables with different parameter lists under an exact   *)
(* key and a wildcard key covering it; no notification flag is ever set.    *)

SignatureCallables == {{"callback1", "callback2", "wildcard_callback"},
                       {"callback1", "flexible_callback", "wildcard_callback"}}
SignatureNamespaces == {FILE_SAVE, FILE_ALL}
SignatureEmits == {FILE_SAVE, FILE_DELETE}
SignatureKeywords == {{}, {"filename", "size"}, {"filename", "mode"}}
SignaturePriorities == {0}

InitSignature == InitWith(SignatureCallables)

NextSignature ==
    \/ Register(SignatureNamespaces, SignaturePriorities)
    \/ Unregister(SignatureNamespaces)
    \/ Emit(SignatureEmits, SignatureKeywords)
    \/ Collect
    \/ Clear

SpecSignature == InitSignature /\ [][NextSignature]_vars

-----------------------------------------------------------------------------
(* SpecNotify: the emit notifications.  Handlers are registered under the   *)
(* emit channel, a subscriber under "file.save", and the emit flags are     *)
(* switched.                                                               *)

NotifyCallables == {{"flexible_callback", "on_notify", "on_data"}}
NotifyNamespaces == {FILE_SAVE, BROKER_ON_EMIT}
NotifyEmits == {FILE_SAVE}
NotifyKeywords == {{}}
NotifyPriorities == {0}
NotifyFlagChoices == {{}, {"on_emit"}, {"on_emit_all"}}

InitNotify == InitWith(NotifyCallables)

NextNotify ==
    \/ Register(NotifyNamespaces, NotifyPriorities)
    \/ Unregister(NotifyNamespaces)
    \/ Emit(NotifyEmits, NotifyKeywords)
    \/ EmitAsync(NotifyEmits, NotifyKeywords)
    \/ SetFlagStates(NotifyFlagChoices)
    \/ Clear

SpecNotify == InitNotify /\ [][NextNotify]_vars

-----------------------------------------------------------------------------
(* SpecAsync: one emit_async at a time, stepped through its awaits, over an  *)
(* exact and a wildcard key with sync and coroutine subscribers; while it   *)
(* is suspended other code registers subscribers and emits.  No subscriber  *)
(* is removed.                                                              *)

AsyncCallables == {{"flexible_callback", "async_callback"}}
AsyncNamespaces == {FILE_SAVE, FILE_ALL}
AsyncEmits == {FILE_SAVE}
AsyncKeywords == {{}}
AsyncPriorities == {0, 5}

InitAsync == InitWith(AsyncCallables)

NextAsync ==
    \/ Register(AsyncNamespaces, AsyncPriorities)
    \/ Emit(AsyncEmits, AsyncKeywords)
    \/ AsyncCall(AsyncEmits, AsyncKeywords)
    \/ AsyncResume

SpecAsync == InitAsync /\ [][NextAsync]_vars

-----------------------------------------------------------------------------
(* SpecAbort: a raising subscriber among others under "file.save", with a   *)
(* handler on the emit channel and the emit notifications switched on and   *)
(* off.                                                                     *)

AbortCallables == {{"flexible_callback", "failing_callback", "on_notify"}}
AbortNamespaces == {FILE_SAVE, BROKER_ON_EMIT}
AbortEmits == {FILE_SAVE}
AbortKeywords == {{}}
AbortPriorities == {0}
AbortFlagChoices == {{}, {"on_emit", "on_emit_async"}}

InitAbort == InitWith(AbortCallables)

NextAbort ==
    \/ Register(AbortNamespaces, AbortPriorities)
    \/ Unregister(AbortNamespaces)
    \/ Emit(AbortEmits, AbortKeywords)
    \/ EmitAsync(AbortEmits, AbortKeywords)
    \/ SetFlagStates(AbortFlagChoices)

SpecAbort == InitAbort /\ [][NextAbort]_vars

-----------------------------------------------------------------------------
(* SpecFlags: the subscribe and unsubscribe notifications.  Handlers are    *)
(* registered under the two channels, subscribers under "file.save", and    *)
(* the two flags are switched in every combination.                         *)

FlagsCallables == {{"flexible_callback", "on_notify"}}
FlagsNamespaces == {FILE_SAVE, BROKER_ON_SUBSCRIBER_ADDED, BROKER_ON_SUBSCRIBER_REMOVED}
FlagsEmits == {FILE_SAVE}
FlagsKeywords == {{}}
FlagsPriorities == {0}
FlagsFlagChoices == {{}, {"on_subscribe"}, {"on_unsubscribe"},
                     {"on_subscribe", "on_unsubscribe"}}

InitFlags == InitWith(FlagsCallables)

NextFlags ==
    \/ Register(FlagsNamespaces, FlagsPriorities)
    \/ Unregister(FlagsNamespaces)
    \/ Emit(FlagsEmits, FlagsKeywords)
    \/ SetFlagStates(FlagsFlagChoices)
    \/ Clear

SpecFlags == InitFlags /\ [][NextFlags]_vars

-----------------------------------------------------------------------------
(* SpecGuard: activity on the reserved channels themselves.  Callables are  *)
(* registered, unregistered and collected under the emit channel, under the *)
(* wildcard key covering every channel, and under "file.save"; emits go to  *)
(* the emit channel and to "file.save", with no flag set or with all eight  *)
(* set.                                                                     *)

GuardCallables == {{"flexible_callback", "on_notify"}}
GuardNamespaces == {FILE_SAVE, BROKER_ON_EMIT, BROKER_NOTIFY_ALL}
GuardEmits == {FILE_SAVE, BROKER_ON_EMIT}
GuardKeywords == {{"using"}}
GuardPriorities == {0}
GuardFlagChoices == {{}, FlagNames}

InitGuard == InitWith(GuardCallables)

NextGuard ==
    \/ Register(GuardNamespaces, GuardPriorities)
    \/ Unregister(GuardNamespaces)
    \/ Emit(GuardEmits, GuardKeywords)
    \/ EmitAsync(GuardEmits, GuardKeywords)
    \/ Collect
    \/ SetFlagStates(GuardFlagChoices)

SpecGuard == InitGuard /\ [][NextGuard]_vars

-----------------------------------------------------------------------------
(* SpecUnmatched: emits that no key covers.  Subscribers sit under           *)
(* "file.save", under "file.*" and under the emit channel; emits go to      *)
(* "file.delete" and to the bare root "file", with and without keywords,    *)
(* while the emit notifications are switched on and off.  No subscriber is  *)
(* removed.                                                                 *)

UnmatchedCallables == {{"callback1", "flexible_callback"}}
UnmatchedNamespaces == {FILE_SAVE, FILE_ALL, BROKER_ON_EMIT}
UnmatchedEmits == {FILE_DELETE, FILE}
UnmatchedKeywords == {{}, {"filename", "size"}}
UnmatchedPriorities == {0}
UnmatchedFlagChoices == {{}, {"on_emit_all"}}

InitUnmatched == InitWith(UnmatchedCallables)

NextUnmatched ==
    \/ Register(UnmatchedNamespaces, UnmatchedPriorities)
    \/ Emit(UnmatchedEmits, UnmatchedKeywords)
    \/ EmitAsync(UnmatchedEmits, UnmatchedKeywords)
    \/ SetFlagStates(UnmatchedFlagChoices)

SpecUnmatched == InitUnmatched /\ [][NextUnmatched]_vars

-----------------------------------------------------------------------------
(* SpecReentrant: an emit over an exact and a wildcard key, one of whose     *)
(* subscribers has a body that calls the broker: while emit is inside it,   *)
(* subscribers are registered and callables are let go of.                  *)

ReentrantCallables == {{"reentrant_callback", "flexible_callback"}}
ReentrantNamespaces == {FILE_SAVE, FILE_ALL}
ReentrantEmits == {FILE_SAVE}
ReentrantKeywords == {{}}
ReentrantPriorities == {0, 5}

InitReentrant == InitWith(ReentrantCallables)

NextReentrant ==
    \/ Register(ReentrantNamespaces, ReentrantPriorities)
    \/ EmitCall(ReentrantEmits, ReentrantKeywords)
    \/ EmitReturn
    \/ CollectUnheld

SpecReentrant == InitReentrant /\ [][NextReentrant]_vars

-----------------------------------------------------------------------------
(* SpecLifecycle: keys coming and going.  Two callables with different       *)
(* parameter lists, one of them fit to handle notifications, are            *)
(* registered, unregistered and let go of under "file.save" and under the   *)
(* wildcard key covering every channel, with no flag set or with all eight  *)
(* set; the registry is cleared and "file.save" is emitted.                 *)

LifecycleCallables == {{"callback1", "on_notify"}}
LifecycleNamespaces == {FILE_SAVE, BROKER_NOTIFY_ALL}
LifecycleEmits == {FILE_SAVE}
LifecycleKeywords == {{"filename", "size"}}
LifecyclePriorities == {0}
LifecycleFlagChoices == {{}, FlagNames}

InitLifecycle == InitWith(LifecycleCallables)

NextLifecycle ==
    \/ Register(LifecycleNamespaces, LifecyclePriorities)
    \/ Unregister(LifecycleNamespaces)
    \/ Emit(LifecycleEmits, LifecycleKeywords)
    \/ Collect
    \/ SetFlagStates(LifecycleFlagChoices)
    \/ Clear

SpecLifecycle == InitLifecycle /\ [][NextLifecycle]_vars

-----------------------------------------------------------------------------
(* SpecConcurrent: two emit_async calls in flight at once over a registry   *)
(* that was filled beforehand: a coroutine subscriber to suspend on and a   *)
(* raising subscriber, under "file.save" and "file.delete".                 *)

ConcurrentCallables == {{"flexible_callback", "async_callback", "failing_callback"}}
ConcurrentNamespaces == {FILE_SAVE, FILE_DELETE}
ConcurrentEmits == {FILE_SAVE}
ConcurrentOtherEmits == {FILE_SAVE, FILE_DELETE}
ConcurrentKeywords == {{}}
ConcurrentPriorities == {0}

InitConcurrent == InitWith(ConcurrentCallables)

NextConcurrent ==
    \/ RegisterIdle(ConcurrentNamespaces, ConcurrentPriorities)
    \/ AsyncCall(ConcurrentEmits, ConcurrentKeywords)
    \/ AsyncResume
    \/ ConcurrentCall(ConcurrentOtherEmits, ConcurrentKeywords)
    \/ ConcurrentResume

SpecConcurrent == InitConcurrent /\ [][NextConcurrent]_vars

-----------------------------------------------------------------------------
(* SpecCascade: every top-level call with the notifications switched on and *)
(* off together: subscribers under "file.save", handlers under the key      *)
(* covering every notification channel, emits with the keyword `using`.     *)

CascadeCallables == {{"flexible_callback", "on_notify"}}
CascadeNamespaces == {FILE_SAVE, BROKER_NOTIFY_ALL}
CascadeEmits == {FILE_SAVE}
CascadeKeywords == {{"using"}}
CascadePriorities == {0}
CascadeFlagChoices == {{}, FlagNames}

InitCascade == InitWith(CascadeCallables)

NextCascade ==
    \/ Register(CascadeNamespaces, CascadePriorities)
    \/ Unregister(CascadeNamespaces)
    \/ Emit(CascadeEmits, CascadeKeywords)
    \/ EmitAsync(CascadeEmits, CascadeKeywords)
    \/ Collect
    \/ SetFlagStates(CascadeFlagChoices)

SpecCascade == InitCascade /\ [][NextCascade]_vars

-----------------------------------------------------------------------------

(* SpecRoute: handlers under the three emit channels, a sync and a          *)
(* coroutine one, while emits and async emits go to "file.save" under no    *)
(* flag, under on_emit_all alone and under every flag.  No subscriber is    *)
(* removed.                                                                 *)

RouteCallables == {{"on_notify", "async_callback"}}
RouteNamespaces == {BROKER_ON_EMIT, BROKER_ON_EMIT_ASYNC, BROKER_ON_EMIT_ALL}
RouteEmits == {FILE_SAVE}
RouteKeywords == {{}}
RoutePriorities == {0}
RouteFlagChoices == {{}, {"on_emit_all"}, FlagNames}

InitRoute == InitWith(RouteCallables)

NextRoute ==
    \/ Register(RouteNamespaces, RoutePriorities)
    \/ Emit(RouteEmits, RouteKeywords)
    \/ EmitAsync(RouteEmits, RouteKeywords)
    \/ SetFlagStates(RouteFlagChoices)

SpecRoute == InitRoute /\ [][NextRoute]_vars

-----------------------------------------------------------------------------

(* What the properties below speak of.                                     *)

\* the segments of a dot-delimited namespace
RECURSIVE Segments(_)
Segments(s) ==
    IF \A i \in DOMAIN s : s[i] # "."
    THEN <<s>>
    ELSE LET i == CHOOSE k \in DOMAIN s : s[k] = "." /\ \A j \in 1..(k - 1) : s[j] # "."
         IN  <<SubSeq(s, 1, i - 1)>> \o Segments(SubSeq(s, i + 1, Len(s)))

\* segment sequence e is covered by pattern p: equal, or p is a root followed by
\* the segment "*" and e is that root followed by one or more segments
CoversSegments(e, p) ==
    \/ e = p
    \/ /\ Len(p) >= 2
       /\ p[Len(p)] = Star
       /\ Len(e) >= Len(p)
       /\ SubSeq(e, 1, Len(p) - 1) = SubSeq(p, 1, Len(p) - 1)

Covers(event_namespace, pattern) ==
    CoversSegments(Segments(event_namespace), Segments(pattern))

\* the invocations the last call made while fanning out its own namespace
OwnCalls == SelectSeq(last.calls, LAMBDA c : c.namespace = last.namespace)

\* how many times the last call invoked subscriber s for its own namespace
TimesInvoked(s) == Cardinality({i \in DOMAIN OwnCalls : OwnCalls[i].sub = s})

IsEmit == last.op \in {"emit", "emit_async"}

\* the keyword names a callable accepts: every named parameter but a *args one,
\* or unconstrained when it declares a **kwargs parameter
AcceptedKeywords(cb) ==
    LET parameters == Callable(cb).parameters
    IN  IF \E i \in DOMAIN parameters : parameters[i].kind = "VAR_KEYWORD"
        THEN None
        ELSE Names({parameters[i].name :
                       i \in {k \in DOMAIN parameters :
                                 parameters[k].kind # "VAR_POSITIONAL"}})

\* key K has an expectation, and it is a set of names
Constrained(sigs, K) == K \in DOMAIN sigs /\ ~sigs[K].none

\* the keys covering namespace N whose constrained expectation is not the set P
Refusing(N, P) ==
    {K \in Keys(_SUBSCRIBERS) :
        /\ Covers(N, K)
        /\ Constrained(_NAMESPACE_SIGNATURES, K)
        /\ _NAMESPACE_SIGNATURES[K].names # P}

-----------------------------------------------------------------------------
(* C1: in every emit, subscribers of one key run in descending priority:    *)
(* of two invoked subscribers under the same key, the one with the strictly *)
(* higher priority is invoked first, whatever the registration order.       *)
C1_PerKeyPriorityOrder ==
    last.op = "emit" =>
        \A i, j \in DOMAIN last.calls :
            (/\ last.calls[i].sub.namespace = last.calls[j].sub.namespace
             /\ last.calls[i].sub.priority > last.calls[j].sub.priority) => i < j

\* registered medium@5, high@10, low@1 and invoked high, medium, low
C1_Witness ==
    /\ last.op = "emit"
    /\ Len(last.calls) = 3
    /\ last.calls[1].sub.priority = 10 /\ last.calls[1].sub.seq = 2
    /\ last.calls[2].sub.priority = 5 /\ last.calls[2].sub.seq = 1
    /\ last.calls[3].sub.priority = 1 /\ last.calls[3].sub.seq = 3

(* C2: emit and emit_async order the subscribers of ALL matching keys as one *)
(* sequence by descending priority: of any two subscribers invoked by one   *)
(* call, the one with the strictly higher priority is invoked first.        *)
C2_GlobalPriorityOrder ==
    IsEmit =>
        \A i, j \in DOMAIN OwnCalls :
            OwnCalls[i].sub.priority > OwnCalls[j].sub.priority => i < j

(* C3: an emit that passes validation and in which nothing raises invokes   *)
(* each live non-async subscriber of every key covering its namespace       *)
(* exactly once, and no subscriber of any other key.                        *)
C3_FanOutExactlyOnce ==
    (last.op = "emit" /\ last.outcome = "ok") =>
        /\ \A s \in AllSubscribers(_SUBSCRIBERS) :
               TimesInvoked(s) =
                   IF /\ Covers(last.namespace, s.namespace)
                      /\ ~s.is_async
                      /\ s.weak_callback \in alive
                   THEN 1 ELSE 0
        /\ \A i \in DOMAIN OwnCalls : OwnCalls[i].sub \in AllSubscribers(_SUBSCRIBERS)

\* f under "file.*" and g under "file.save": emit("file.save") runs both once,
\* while a subscriber of another call's key is left alone
C3_Witness ==
    /\ last.op = "emit" /\ last.outcome = "ok" /\ last.namespace = FILE_SAVE
    /\ \E s, t \in AllSubscribers(_SUBSCRIBERS) :
           /\ s.namespace = FILE_ALL /\ t.namespace = FILE_SAVE
           /\ TimesInvoked(s) = 1 /\ TimesInvoked(t) = 1

C4_MatchesIffCovered ==
    last.op = "_matches" =>
        last.result = CoversSegments(last.event, last.pattern)

\* "a.*" against "a.b.a": a descendant two levels down is matched
C4_Witness ==
    /\ last.op = "_matches"
    /\ last.pattern = <<<<"a">>, Star>>
    /\ last.event = <<<<"a">>, <<"b">>, <<"a">>>>
    /\ last.result

(* C5: register_subscriber(K, cb) raises SignatureMismatchError iff K has a  *)
(* constrained expectation, cb's keyword set S is constrained, and the two  *)
(* differ as sets; then nothing changes.  Otherwise the expectation of K    *)
(* becomes S when K had none, unconstrained when K's expectation or S is    *)
(* unconstrained, and stays as it was when S equals it.                     *)
C5_SignatureMismatchIff ==
    [][last'.op = "register_subscriber" =>
          LET K == last'.namespace
              S == AcceptedKeywords(last'.callback)
              differ == /\ Constrained(_NAMESPACE_SIGNATURES, K)
                        /\ ~S.none
                        /\ S.names # _NAMESPACE_SIGNATURES[K].names
          IN  /\ (last'.outcome = "SignatureMismatchError") <=> differ
              /\ differ => UNCHANGED <<_SUBSCRIBERS, _NAMESPACE_SIGNATURES>>
              /\ ~differ =>
                     /\ last'.outcome = "ok"
                     /\ K \in DOMAIN _NAMESPACE_SIGNATURES'
                     /\ _NAMESPACE_SIGNATURES'[K] =
                            IF K \notin DOMAIN _NAMESPACE_SIGNATURES THEN S
                            ELSE IF _NAMESPACE_SIGNATURES[K].none \/ S.none THEN None
                            ELSE _NAMESPACE_SIGNATURES[K]]_vars

\* callback1(size, filename) and callback2(filename, *args, size) share a key,
\* and wildcard_callback(filename, mode) was refused there
C5_Witness ==
    /\ last.op = "register_subscriber"
    /\ last.outcome = "SignatureMismatchError"
    /\ last.callback = "wildcard_callback"
    /\ {s.weak_callback : s \in Range(Lookup(_SUBSCRIBERS, last.namespace))}
           = {"callback1", "callback2"}

(* C6 as stated: a key under which a callable taking **kwargs was ever       *)
(* registered never has a constrained expectation again, whatever is        *)
(* registered and unregistered afterwards.                                  *)
C6_WideningPermanent ==
    \A K \in widened : ~Constrained(_NAMESPACE_SIGNATURES, K)

(* C6, amended: an unconstrained expectation of key K lasts as long as K's   *)
(* entry: it stays unconstrained through every call, also when the **kwargs *)
(* subscriber is unregistered while another subscriber of K remains, until  *)
(* an unregister_subscriber on K leaves K without subscribers, or clear(),  *)
(* deletes the entry; while it lasts no registration under K raises         *)
(* SignatureMismatchError and no emit is refused because of K.              *)
C6_WideningLastsWithKey ==
    [][\A K \in DOMAIN _NAMESPACE_SIGNATURES :
          _NAMESPACE_SIGNATURES[K].none =>
              /\ \/ /\ K \in DOMAIN _NAMESPACE_SIGNATURES'
                    /\ _NAMESPACE_SIGNATURES'[K].none
                 \/ /\ K \notin DOMAIN _NAMESPACE_SIGNATURES'
                    /\ ~HasKey(_SUBSCRIBERS', K)
                    /\ \/ last'.op = "clear"
                       \/ last'.op = "unregister_subscriber" /\ last'.namespace = K
              /\ (last'.op = "register_subscriber" /\ last'.namespace = K)
                     => last'.outcome = "ok"
              /\ (last'.op = "emit" /\ last'.outcome = "EmitArgumentError")
                     => \E J \in Keys(_SUBSCRIBERS) \ {K} :
                            /\ Covers(last'.namespace, J)
                            /\ Constrained(_NAMESPACE_SIGNATURES, J)]_vars

\* the **kwargs subscriber of a key is gone, a subscriber with named parameters
\* remains, the key is still unconstrained, and a callable with other parameters
\* has just been registered under it
C6_Witness ==
    /\ last.op = "register_subscriber" /\ last.outcome = "ok"
    /\ last.namespace \in widened
    /\ _NAMESPACE_SIGNATURES[last.namespace].none
    /\ {s.weak_callback : s \in Range(Lookup(_SUBSCRIBERS, last.namespace))}
           = {"callback1", "wildcard_callback"}

(* C7: with every notification flag off, emit(N, **kwargs) raises            *)
(* EmitArgumentError iff some key of the registry that covers N, exact or   *)
(* wildcard, has a constrained expectation different from the set of the    *)
(* provided keyword names; an unconstrained key never refuses.              *)
C7_ArgumentMismatchIff ==
    (last.op = "emit" /\ flags = InitialFlags) =>
        ((last.outcome = "EmitArgumentError")
             <=> (Refusing(last.namespace, DOMAIN last.kwargs) # {}))

\* an emit to "file.save" that the exact key accepts (it is unconstrained, or
\* expects these names) and the wildcard key refuses
C7_Witness ==
    /\ last.op = "emit" /\ last.outcome = "EmitArgumentError"
    /\ last.namespace = FILE_SAVE
    /\ HasKey(_SUBSCRIBERS, FILE_SAVE)
    /\ Refusing(FILE_SAVE, DOMAIN last.kwargs) = {FILE_ALL}

(* C8: whenever emit or emit_async ends with EmitArgumentError, no callable  *)
(* was invoked during the call, neither a subscriber nor a notification     *)
(* handler, whatever flags are set and whatever handlers are registered.    *)
C8_MismatchBeforeAnySubscriber ==
    (IsEmit /\ last.outcome = "EmitArgumentError") => last.calls = <<>>

(* C9: expectations are per key.  A registration is refused only because of  *)
(* the expectation of its own key, so an exact key and a wildcard key       *)
(* covering it can hold different constrained expectations; then every emit *)
(* to a namespace both cover raises EmitArgumentError and invokes nothing,  *)
(* whatever keywords it provides.                                           *)
C9_PerKeyExpectations ==
    /\ (last.op = "register_subscriber" /\ last.outcome = "SignatureMismatchError") =>
           /\ Constrained(_NAMESPACE_SIGNATURES, last.namespace)
           /\ _NAMESPACE_SIGNATURES[last.namespace] # AcceptedKeywords(last.callback)
    /\ (/\ last.op = "emit"
        /\ \E J, K \in Keys(_SUBSCRIBERS) :
               /\ Covers(last.namespace, J) /\ Covers(last.namespace, K)
               /\ Constrained(_NAMESPACE_SIGNATURES, J)
               /\ Constrained(_NAMESPACE_SIGNATURES, K)
               /\ _NAMESPACE_SIGNATURES[J] # _NAMESPACE_SIGNATURES[K]) =>
           /\ last.outcome = "EmitArgumentError"
           /\ last.calls = <<>>

\* "file.save" expects {filename, size}, "file.*" expects {filename, mode}, both
\* have a live subscriber, and emit("file.save", filename=, size=) was refused
C9_Witness ==
    /\ last.op = "emit" /\ last.namespace = FILE_SAVE
    /\ DOMAIN last.kwargs = {"filename", "size"}
    /\ last.outcome = "EmitArgumentError"
    /\ Constrained(_NAMESPACE_SIGNATURES, FILE_SAVE)
    /\ Constrained(_NAMESPACE_SIGNATURES, FILE_ALL)
    /\ _NAMESPACE_SIGNATURES[FILE_SAVE].names = {"filename", "size"}
    /\ _NAMESPACE_SIGNATURES[FILE_ALL].names = {"filename", "mode"}
    /\ \E s \in Range(Lookup(_SUBSCRIBERS, FILE_SAVE)) : s.weak_callback \in alive
    /\ \E s \in Range(Lookup(_SUBSCRIBERS, FILE_ALL)) : s.weak_callback \in alive

\* the subscribers task t started, in the order it started them
Starts(t) ==
    [i \in 1..Len(Started(t)) |-> Started(t)[i].sub]

\* the place of key K in the registry
KeyIndex(K) == CHOOSE i \in DOMAIN _SUBSCRIBERS : _SUBSCRIBERS[i].namespace = K

\* subscriber s is dispatched before subscriber u: its key comes first, or they
\* share the key and s has the higher priority or, at equal priority, is older
DispatchedBefore(s, u) ==
    \/ KeyIndex(s.namespace) < KeyIndex(u.namespace)
    \/ /\ s.namespace = u.namespace
       /\ \/ s.priority > u.priority
          \/ s.priority = u.priority /\ s.seq < u.seq

(* C11: emit_async invokes every matching subscriber, sync and async, one at *)
(* a time in dispatch order: each started subscriber completes before the   *)
(* next one starts, so at most one is in flight; and the call resolves only *)
(* when every subscriber it started has completed, after each subscriber of *)
(* a covering key that was there at the call has been invoked once.         *)
C11_AsyncOneAtATime ==
    /\ \A i \in DOMAIN task.events :
           IF i % 2 = 1
           THEN task.events[i].kind = "start"
           ELSE task.events[i].kind = "end" /\ task.events[i].sub = task.events[i - 1].sub
    /\ \A i, j \in DOMAIN Starts(task) :
           i < j => DispatchedBefore(Starts(task)[i], Starts(task)[j])
    /\ task.state = "awaiting" =>
           /\ Len(task.events) % 2 = 1
           /\ task.events[Len(task.events)].sub.is_async
    /\ (task.state = "done" /\ task.outcome = "ok") =>
           /\ Len(task.events) % 2 = 0
           /\ \A s \in AllSubscribers(_SUBSCRIBERS) :
                  (Covers(task.namespace, s.namespace) /\ s.seq < task.first) =>
                      Cardinality({i \in DOMAIN Starts(task) : Starts(task)[i] = s}) = 1

\* a resolved emit_async that awaited a coroutine subscriber, then ran a sync one,
\* then awaited a second coroutine subscriber
C11_Witness ==
    /\ task.state = "done" /\ task.outcome = "ok"
    /\ Len(Starts(task)) >= 3
    /\ Starts(task)[1].is_async
    /\ ~Starts(task)[2].is_async
    /\ Starts(task)[3].is_async

\* invocation c ran a callable whose body raises
RaisedIn(c) == Callable(c.sub.weak_callback).raises

(* C12: a subscriber that raises aborts the fan-out of its call: its         *)
(* invocation is the last one of the top-level call, which ends with the    *)
(* subscriber's error; when it raised in the fan-out of the emitted         *)
(* namespace, no notification handler was invoked; and the registry and the *)
(* signature expectations are as before the call.                           *)
C12_RaisingSubscriberAborts ==
    [][last'.op \in {"emit", "emit_async"} =>
          /\ \A i \in DOMAIN last'.calls :
                 RaisedIn(last'.calls[i]) =>
                     /\ i = Len(last'.calls)
                     /\ last'.outcome = "Error"
                     /\ last'.calls[i].namespace = last'.namespace =>
                            \A j \in DOMAIN last'.calls :
                                last'.calls[j].namespace = last'.namespace
          /\ last'.outcome = "Error" =>
                 /\ last'.calls # <<>>
                 /\ RaisedIn(last'.calls[Len(last'.calls)])
                 /\ UNCHANGED <<_SUBSCRIBERS, _NAMESPACE_SIGNATURES>>]_vars

\* an emit that a raising subscriber aborted while a subscriber registered
\* after it under the same key and a live handler on the emit channel, with the
\* flag on, were still to come
C12_Witness ==
    /\ last.op = "emit" /\ last.outcome = "Error" /\ last.calls # <<>>
    /\ flags.notify_on_emit
    /\ \E h \in AllSubscribers(_SUBSCRIBERS) :
           h.namespace = BROKER_ON_EMIT /\ h.weak_callback = "on_notify"
    /\ \E s \in AllSubscribers(_SUBSCRIBERS) :
           /\ s.namespace = last.namespace
           /\ s.weak_callback = "flexible_callback"
           /\ s.seq > last.calls[Len(last.calls)].sub.seq
           /\ \A i \in DOMAIN last.calls : last.calls[i].sub # s

\* the subscriber records under key K of registry d, in list order
RecordsUnder(d, K) == IF HasKey(d, K) THEN Lookup(d, K) ELSE <<>>

(* C13: unregister_subscriber(N, cb) has no effect when no subscriber under  *)
(* key N has callback cb: registry, signature expectations and flags are    *)
(* unchanged, nothing is raised and no notification handler is invoked,     *)
(* whatever the flags.                                                      *)
C13_UnregisterUnknownNoEffect ==
    [][(/\ last'.op = "unregister_subscriber"
        /\ \A s \in Range(RecordsUnder(_SUBSCRIBERS, last'.namespace)) :
               callback(s, alive) # last'.callback) =>
          /\ UNCHANGED <<_SUBSCRIBERS, _NAMESPACE_SIGNATURES, flags>>
          /\ last'.outcome = "ok"
          /\ last'.calls = <<>>]_vars

(* C14: when unregister_subscriber(N, cb) returns, the records under N are   *)
(* those that were there with another callback, in the same order, every    *)
(* record of cb being gone however often cb was registered under N; the     *)
(* lists of all other keys, cb's records there included, are as they were;  *)
(* and an emit invokes only subscribers that have a record in the registry. *)
C14_UnregisterRemovesAllOfCallback ==
    [][/\ (last'.op = "unregister_subscriber" /\ last'.outcome = "ok") =>
            /\ RecordsUnder(_SUBSCRIBERS', last'.namespace) =
                   SelectSeq(RecordsUnder(_SUBSCRIBERS, last'.namespace),
                             LAMBDA s : s.weak_callback # last'.callback)
            /\ \A K \in Keys(_SUBSCRIBERS) \ {last'.namespace} :
                   /\ HasKey(_SUBSCRIBERS', K)
                   /\ Lookup(_SUBSCRIBERS', K) = Lookup(_SUBSCRIBERS, K)
            /\ Keys(_SUBSCRIBERS') \subseteq Keys(_SUBSCRIBERS)
       /\ last'.op \in {"emit", "emit_async"} =>
            \A i \in DOMAIN last'.calls :
                last'.calls[i].sub \in AllSubscribers(_SUBSCRIBERS)]_vars

\* flexible_callback was unregistered from "file.save", where the first and the
\* third subscriber created were its records; the second, its record under
\* "file.*", is still there
C14_Witness ==
    /\ last.op = "unregister_subscriber" /\ last.outcome = "ok"
    /\ last.namespace = FILE_SAVE /\ last.callback = "flexible_callback"
    /\ nextSeq = 4
    /\ ~HasKey(_SUBSCRIBERS, FILE_SAVE)
    /\ \E s \in AllSubscribers(_SUBSCRIBERS) :
           /\ s.namespace = FILE_ALL /\ s.weak_callback = "flexible_callback"
           /\ s.seq = 2

(* C15: an unregister_subscriber that removes the last subscribers of key K  *)
(* deletes K from the registry, so that K is no member of the to_string()   *)
(* dump, together with K's signature expectation; a register_subscriber(K,  *)
(* cb2) that follows succeeds whatever cb2 is, and K's expectation is then  *)
(* cb2's keyword set.                                                       *)
C15_LastUnregisterForgetsKey ==
    [][/\ (/\ last'.op = "unregister_subscriber" /\ last'.outcome = "ok"
           /\ \A s \in Range(RecordsUnder(_SUBSCRIBERS, last'.namespace)) :
                  s.weak_callback = last'.callback) =>
              /\ last'.namespace \notin DOMAIN to_string(_SUBSCRIBERS', alive')
              /\ last'.namespace \notin DOMAIN _NAMESPACE_SIGNATURES'
       /\ (/\ last.op = "unregister_subscriber"
           /\ ~HasKey(_SUBSCRIBERS, last.namespace)
           /\ last'.op = "register_subscriber"
           /\ last'.namespace = last.namespace) =>
              /\ last'.outcome = "ok"
              /\ last'.namespace \in DOMAIN to_string(_SUBSCRIBERS', alive')
              /\ _NAMESPACE_SIGNATURES'[last'.namespace] =
                     AcceptedKeywords(last'.callback)]_vars

\* wildcard_callback(filename, mode) is the only subscriber of "file.save", and
\* the second one created: the first was unregistered before
C15_Witness ==
    /\ last.op = "register_subscriber" /\ last.outcome = "ok"
    /\ last.namespace = FILE_SAVE /\ last.callback = "wildcard_callback"
    /\ nextSeq = 3
    /\ alive = {"callback1", "callback2", "wildcard_callback"}
    /\ Keys(_SUBSCRIBERS) = {FILE_SAVE}
    /\ Len(Lookup(_SUBSCRIBERS, FILE_SAVE)) = 1
    /\ _NAMESPACE_SIGNATURES[FILE_SAVE] = Names({"filename", "mode"})
    /\ widened = {}

\* key K has a subscriber whose callable is alive
HasLiveSubscriber(K) ==
    \E s \in Range(RecordsUnder(_SUBSCRIBERS, K)) : s.weak_callback \in alive

(* C16: once a subscriber's callable has been collected, an emit to a        *)
(* namespace its key covers does not invoke it, the dump does not show it,  *)
(* and the emit is not refused on its account: an emit raises               *)
(* EmitArgumentError only because of a covering key that has a live         *)
(* subscriber.                                                              *)
C16_CollectedSubscriberImposesNothing ==
    /\ \A K \in DOMAIN to_string(_SUBSCRIBERS, alive) :
           \A i \in DOMAIN to_string(_SUBSCRIBERS, alive)[K] :
               to_string(_SUBSCRIBERS, alive)[K][i].info # DEAD_REFERENCE
    /\ last.op = "emit" =>
           /\ \A i \in DOMAIN last.calls : last.calls[i].sub.weak_callback \in alive
           /\ last.outcome = "EmitArgumentError" =>
                  \E K \in Refusing(last.namespace, DOMAIN last.kwargs) :
                      HasLiveSubscriber(K)

\* the invocations the last call made on notification channel `channel`
CallsOn(channel) == SelectSeq(last.calls, LAMBDA c : c.namespace = channel)

\* the live subscribers an emit to `channel` invokes
HandlersOf(channel) ==
    {s \in AllSubscribers(_SUBSCRIBERS) :
        Covers(channel, s.namespace) /\ ~s.is_async /\ s.weak_callback \in alive}

(* C17: with on_subscribe set, a successful register_subscriber(N, cb) with  *)
(* N outside the reserved root delivers one subscriber-added notification:  *)
(* every handler of that channel is invoked exactly once, with the single   *)
(* keyword using = N; with the flag off none is delivered, and with every   *)
(* flag off no register, unregister or emit invokes anything on a reserved  *)
(* channel.                                                                 *)
C17_SubscribeNotification ==
    /\ (last.op = "register_subscriber" /\ ~IsNotifyNamespace(last.namespace)) =>
           IF flags.notify_on_subscribe
           THEN last.outcome = "ok" =>
                    /\ \A s \in HandlersOf(BROKER_ON_SUBSCRIBER_ADDED) :
                           Cardinality({i \in DOMAIN CallsOn(BROKER_ON_SUBSCRIBER_ADDED) :
                                           CallsOn(BROKER_ON_SUBSCRIBER_ADDED)[i].sub = s}) = 1
                    /\ \A i \in DOMAIN CallsOn(BROKER_ON_SUBSCRIBER_ADDED) :
                           CallsOn(BROKER_ON_SUBSCRIBER_ADDED)[i].kwargs =
                               [n \in {"using"} |-> last.namespace]
           ELSE CallsOn(BROKER_ON_SUBSCRIBER_ADDED) = <<>>
    /\ (/\ flags = InitialFlags
        /\ last.op \in {"register_subscriber", "unregister_subscriber", "emit"}
        /\ ~IsNotifyNamespace(last.namespace)) =>
           \A i \in DOMAIN last.calls : ~IsNotifyNamespace(last.calls[i].namespace)

\* with on_subscribe set and on_notify registered on the subscriber-added
\* channel, registering under "file.save" invoked on_notify(using="file.save")
C17_Witness ==
    /\ last.op = "register_subscriber" /\ last.outcome = "ok"
    /\ last.namespace = FILE_SAVE
    /\ flags.notify_on_subscribe
    /\ Len(last.calls) = 1
    /\ last.calls[1].namespace = BROKER_ON_SUBSCRIBER_ADDED
    /\ last.calls[1].sub.weak_callback = "on_notify"
    /\ last.calls[1].kwargs = [n \in {"using"} |-> FILE_SAVE]

(* C18: under every flag configuration, a register_subscriber,               *)
(* unregister_subscriber, emit or emit_async whose namespace lies under the *)
(* reserved root triggers no notification (it invokes nothing but the       *)
(* subscribers of its own fan-out), and no notification, that of a          *)
(* collection included, carries a namespace under the reserved root.        *)
C18_RecursionGuard ==
    /\ (/\ last.op \in {"register_subscriber", "unregister_subscriber",
                         "emit", "emit_async"}
        /\ IsNotifyNamespace(last.namespace)) =>
           /\ \A i \in DOMAIN last.calls : last.calls[i].namespace = last.namespace
           /\ last.op \in {"register_subscriber", "unregister_subscriber"} =>
                  last.calls = <<>>
    /\ ~IsNotifyNamespace(last.namespace) =>
           \A i \in DOMAIN last.calls :
               IsNotifyNamespace(last.calls[i].namespace) =>
                   /\ DOMAIN last.calls[i].kwargs = {"using"}
                   /\ ~IsNotifyNamespace(last.calls[i].kwargs["using"])

\* with every flag set, an emit to the emit channel itself ran the handler
\* registered there and nothing else
C18_Witness ==
    /\ last.op = "emit" /\ last.namespace = BROKER_ON_EMIT /\ last.outcome = "ok"
    /\ flags.notify_on_emit /\ flags.notify_on_emit_all
    /\ last.calls # <<>>

(* C19: clear() resets all broker state: after it the registry is empty,     *)
(* the signature expectations are empty and every notification flag is      *)
(* false.                                                                   *)
C19_ClearResetsEverything ==
    last.op = "clear" =>
        /\ _SUBSCRIBERS = <<>>
        /\ DOMAIN _NAMESPACE_SIGNATURES = {}
        /\ flags = InitialFlags

\* the value of the flag set by argument `name` of set_flag_sates
FlagValue(fl, name) ==
    CASE name = "on_subscribe" -> fl.notify_on_subscribe
      [] name = "on_unsubscribe" -> fl.notify_on_unsubscribe
      [] name = "on_collected" -> fl.notify_on_collected
      [] name = "on_emit" -> fl.notify_on_emit
      [] name = "on_emit_async" -> fl.notify_on_emit_async
      [] name = "on_emit_all" -> fl.notify_on_emit_all
      [] name = "on_new_namespace" -> fl.notify_on_new_namespace
      [] name = "on_del_namespace" -> fl.notify_on_del_namespace

\* the call that has just returned invoked something on `channel`
NotifiedOn(channel) ==
    \E i \in DOMAIN last'.calls : last'.calls[i].namespace = channel

(* C20: set_flag_sates sets the eight flags together: afterwards each flag   *)
(* is true iff it was passed as true, whatever it was before, and registry  *)
(* and signature expectations are untouched; the flags act independently:   *)
(* a registration outside the reserved root notifies the handlers of the    *)
(* subscriber-added channel iff on_subscribe is set, an unregistration from *)
(* an existing key those of the subscriber-removed channel iff              *)
(* on_unsubscribe is set, whatever the other flag is.                       *)
C20_FlagsSetTogether ==
    [][/\ last'.op = "set_flag_sates" =>
            /\ \A name \in FlagNames :
                   FlagValue(flags', name) =
                       (name \in DOMAIN last'.kwargs /\ last'.kwargs[name])
            /\ UNCHANGED <<_SUBSCRIBERS, _NAMESPACE_SIGNATURES>>
       /\ (/\ last'.op = "register_subscriber" /\ last'.outcome = "ok"
           /\ ~IsNotifyNamespace(last'.namespace)
           /\ HandlersOf(BROKER_ON_SUBSCRIBER_ADDED) # {}) =>
              (NotifiedOn(BROKER_ON_SUBSCRIBER_ADDED) <=> flags.notify_on_subscribe)
       /\ (/\ last'.op = "unregister_subscriber" /\ last'.outcome = "ok"
           /\ ~IsNotifyNamespace(last'.namespace)
           /\ HasKey(_SUBSCRIBERS, last'.namespace)
           /\ HandlersOf(BROKER_ON_SUBSCRIBER_REMOVED) # {}) =>
              (NotifiedOn(BROKER_ON_SUBSCRIBER_REMOVED) <=> flags.notify_on_unsubscribe)]_vars

\* set_flag_sates(on_subscribe=True, on_unsubscribe=True) has just returned
\* while handlers sit on both channels
C20_Witness ==
    /\ last.op = "set_flag_sates"
    /\ DOMAIN last.kwargs = {"on_subscribe", "on_unsubscribe"}
    /\ flags.notify_on_subscribe /\ flags.notify_on_unsubscribe
    /\ ~flags.notify_on_emit
    /\ HandlersOf(BROKER_ON_SUBSCRIBER_ADDED) # {}
    /\ HandlersOf(BROKER_ON_SUBSCRIBER_REMOVED) # {}

(* C21: with on_emit set, an emit(N) outside the reserved root that returns  *)
(* without error delivers one notification on the emit channel: it invokes  *)
(* every handler of that channel exactly once, with the single keyword      *)
(* using = N, after it has invoked every matched subscriber of N once, and  *)
(* it invokes nothing else; the handlers are invoked also when no key       *)
(* covers N.                                                                *)
C21_EmitNotification ==
    (/\ last.op = "emit" /\ last.outcome = "ok"
     /\ ~IsNotifyNamespace(last.namespace)
     /\ flags.notify_on_emit) =>
        /\ \A s \in HandlersOf(BROKER_ON_EMIT) :
               Cardinality({i \in DOMAIN CallsOn(BROKER_ON_EMIT) :
                               CallsOn(BROKER_ON_EMIT)[i].sub = s}) = 1
        /\ \A i \in DOMAIN CallsOn(BROKER_ON_EMIT) :
               CallsOn(BROKER_ON_EMIT)[i].kwargs = [n \in {"using"} |-> last.namespace]
        /\ \A s \in HandlersOf(last.namespace) : TimesInvoked(s) = 1
        /\ \A i, j \in DOMAIN last.calls :
               (/\ last.calls[i].namespace = last.namespace
                /\ last.calls[j].namespace = BROKER_ON_EMIT) => i < j
        /\ Len(last.calls) = Len(OwnCalls) + Len(CallsOn(BROKER_ON_EMIT))

\* with on_emit set, emit("file.save") ran the subscriber of "file.save" and
\* then on_notify(using="file.save") registered on the emit channel
C21_Witness ==
    /\ last.op = "emit" /\ last.outcome = "ok" /\ last.namespace = FILE_SAVE
    /\ flags.notify_on_emit
    /\ Len(last.calls) = 2
    /\ last.calls[1].namespace = FILE_SAVE
    /\ last.calls[2].namespace = BROKER_ON_EMIT
    /\ last.calls[2].sub.weak_callback = "on_notify"
    /\ last.calls[2].kwargs = [n \in {"using"} |-> FILE_SAVE]

\* every notification flag of fl is off
NotificationsDisabled(fl) == \A name \in FlagNames : ~FlagValue(fl, name)

(* C22: with every notification flag off, an emit or emit_async to a         *)
(* namespace that no registry key covers is a no-op, whatever keywords it   *)
(* passes: it raises nothing, invokes no callable, and leaves registry,     *)
(* signature expectations and flags as they were.                           *)
C22_UnmatchedEmitNoOp ==
    [][(/\ last'.op \in {"emit", "emit_async"}
        /\ NotificationsDisabled(flags)
        /\ \A K \in Keys(_SUBSCRIBERS) : ~Covers(last'.namespace, K)) =>
          /\ last'.outcome = "ok"
          /\ last'.calls = <<>>
          /\ UNCHANGED <<_SUBSCRIBERS, _NAMESPACE_SIGNATURES, flags>>]_vars

\* emit_async("file") returned, passing no keyword, while "file.*" and
\* "file.save" hold live subscribers, "file.*" expecting filename and size,
\* and every flag is off
C22_Witness ==
    /\ last.op = "emit_async" /\ last.namespace = FILE /\ last.outcome = "ok"
    /\ DOMAIN last.kwargs = {}
    /\ last.calls = <<>>
    /\ NotificationsDisabled(flags)
    /\ HasLiveSubscriber(FILE_ALL) /\ HasLiveSubscriber(FILE_SAVE)
    /\ Constrained(_NAMESPACE_SIGNATURES, FILE_ALL)

(* C23: the subscriber set of an emit is fixed at its entry: when a          *)
(* subscriber it invokes registers subscribers, under a covering key or     *)
(* another one, new or existing, the emit returns without error having      *)
(* invoked exactly the synchronous subscribers, in exactly the order, that  *)
(* the registry gave when the emit was entered (no callable among them      *)
(* having been let go of meanwhile).                                        *)
C23_EmitSubscribersFixedAtEntry ==
    (/\ last.op = "emit" /\ task.state = "done"
     /\ task.outcome # "EmitArgumentError"
     /\ \A s \in Range(task.entry) : s.weak_callback \in alive) =>
        /\ task.outcome = "ok"
        /\ Starts(task) = task.entry

(* C24: an emit_async in flight keeps the subscriber list of its entry:      *)
(* when other code registers subscribers, under new keys or existing ones,  *)
(* while it is suspended on a coroutine subscriber, the resumed call ends   *)
(* without error having invoked exactly the subscribers, in exactly the     *)
(* order, that the registry gave when it was entered.                       *)
C24_AsyncSubscribersFixedAtEntry ==
    (/\ last.op = "emit_async" /\ task.state = "done"
     /\ task.outcome # "EmitArgumentError") =>
        /\ task.outcome = "ok"
        /\ Starts(task) = task.entry

(* C25: a subscriber whose callable was let go of after the emit began to    *)
(* iterate the list of its key is skipped silently: the emit does not end   *)
(* with the TypeError of calling an absent callable, and it invokes every   *)
(* live synchronous subscriber that shared the list with the dead one.      *)
C25_DeadSubscriberSkipped ==
    (last.op = "emit" /\ task.state = "done") =>
        /\ task.outcome # "TypeError"
        /\ \A u \in Range(task.entry) :
               (/\ u.weak_callback \notin alive
                /\ \E s \in Range(Starts(task)) : s.namespace = u.namespace) =>
                   \A s \in Range(task.entry) :
                       (s.namespace = u.namespace /\ s.weak_callback \in alive) =>
                           s \in Range(Starts(task))

\* the views the notification handlers invoked by the last call had
ViewsSeen ==
    {last.calls[i].seen : i \in {j \in DOMAIN last.calls : last.calls[j].seen.taken}}

\* every key of registry d has a subscriber whose callable is alive
EveryKeyLive(d) ==
    \A i \in DOMAIN d : \E s \in Range(d[i].subscribers) : s.weak_callback \in alive

(* C26: a namespace key exists in the registry iff at least one live         *)
(* subscriber is recorded under it (no key maps to an empty list), in every *)
(* state left by register_subscriber, unregister_subscriber, emit, clear    *)
(* and collection, a call that raised included, and in every state a        *)
(* notification handler finds.                                              *)
C26_KeyIffLiveSubscriber ==
    /\ EveryKeyLive(_SUBSCRIBERS)
    /\ \A v \in ViewsSeen : EveryKeyLive(v.subs)

\* the keys that have a signature expectation are the keys of the registry
SameKeys(d, sigs) == DOMAIN sigs = Keys(d)

(* C27: wherever user code can run, between top-level calls and inside a     *)
(* notification handler, a signature expectation exists for exactly the     *)
(* keys of the registry, after any sequence of registrations (failed ones   *)
(* included), unregistrations, clear() and collections.                     *)
C27_SignatureIffKey ==
    /\ SameKeys(_SUBSCRIBERS, _NAMESPACE_SIGNATURES)
    /\ \A v \in ViewsSeen : SameKeys(v.subs, v.sigs)

\* a registration under "file.save" was refused with SignatureMismatchError
\* after the key's only subscriber had been collected; the handler covering
\* every channel is still registered
C27_Witness ==
    /\ last.op = "register_subscriber" /\ last.outcome = "SignatureMismatchError"
    /\ last.namespace = FILE_SAVE
    /\ HasKey(_SUBSCRIBERS, FILE_SAVE) /\ Lookup(_SUBSCRIBERS, FILE_SAVE) = <<>>
    /\ FILE_SAVE \in DOMAIN _NAMESPACE_SIGNATURES
    /\ HasLiveSubscriber(BROKER_NOTIFY_ALL)

(* C28: for every registry key K whose expectation is constrained, every     *)
(* live subscriber recorded under K accepts exactly the keywords of K's     *)
(* expectation; hence an emit that passed validation invoked each           *)
(* subscriber of a constrained key with exactly the keywords that           *)
(* subscriber accepts.                                                      *)
C28_SubscribersFitExpectation ==
    /\ \A s \in AllSubscribers(_SUBSCRIBERS) :
           (s.weak_callback \in alive /\ Constrained(_NAMESPACE_SIGNATURES, s.namespace)) =>
               AcceptedKeywords(s.weak_callback) = _NAMESPACE_SIGNATURES[s.namespace]
    /\ last.op = "emit" =>
           \A i \in DOMAIN last.calls :
               Constrained(_NAMESPACE_SIGNATURES, last.calls[i].sub.namespace) =>
                   Names(DOMAIN last.calls[i].kwargs) =
                       AcceptedKeywords(last.calls[i].sub.weak_callback)

\* emit("file.save", filename=..., size=...) invoked callback1(size, filename)
\* under "file.save" and callback2(filename, *args, size) under "file.*", both
\* keys constrained
C28_Witness ==
    /\ last.op = "emit" /\ last.outcome = "ok" /\ last.namespace = FILE_SAVE
    /\ Len(last.calls) = 2
    /\ {last.calls[1].sub.weak_callback, last.calls[2].sub.weak_callback} =
           {"callback1", "callback2"}
    /\ last.calls[1].sub.namespace # last.calls[2].sub.namespace
    /\ Constrained(_NAMESPACE_SIGNATURES, FILE_SAVE)
    /\ Constrained(_NAMESPACE_SIGNATURES, FILE_ALL)

(* C29: removal by collection cascades like explicit removal: when the       *)
(* callable of the last subscribers of key K is collected, K's registry     *)
(* entry and K's signature expectation are deleted, so that a registration  *)
(* under a key without live subscriber that follows a collection is never   *)
(* refused with SignatureMismatchError.                                     *)
C29_CollectionCascades ==
    [][/\ last'.op = "collect" =>
            \A K \in Keys(_SUBSCRIBERS) :
                (\A s \in Range(Lookup(_SUBSCRIBERS, K)) :
                     s.weak_callback = last'.callback) =>
                    /\ ~HasKey(_SUBSCRIBERS', K)
                    /\ K \notin DOMAIN _NAMESPACE_SIGNATURES'
       /\ (/\ last.op = "collect"
           /\ last'.op = "register_subscriber"
           /\ ~HasLiveSubscriber(last'.namespace)) =>
              last'.outcome # "SignatureMismatchError"]_vars

\* the invocations of the last call that delivered a notification on `channel`
Delivered(channel) ==
    {last.calls[i] : i \in {j \in DOMAIN last.calls :
                               /\ last.calls[j].seen.taken
                               /\ last.calls[j].namespace = channel}}

(* C30: every notification is emitted after its mutation has taken effect:  *)
(* a subscriber-added handler finds the new subscriber recorded under its   *)
(* key, a namespace-created handler finds the key, a subscriber-removed     *)
(* handler finds no record of the unregistered callable under the key, a    *)
(* subscriber-collected handler finds no record of the collected callable   *)
(* under the key, and a namespace-deleted handler finds neither the key nor *)
(* its signature expectation.                                               *)
C30_NotifiedAfterMutation ==
    /\ \A c \in Delivered(BROKER_ON_SUBSCRIBER_ADDED) :
           \E s \in Range(RecordsUnder(c.seen.subs, c.kwargs["using"])) :
               /\ s.weak_callback = last.callback
               /\ s.priority = last.priority
               /\ s.seq = nextSeq - 1
    /\ \A c \in Delivered(BROKER_ON_NAMESPACE_CREATED) :
           HasKey(c.seen.subs, c.kwargs["using"])
    /\ \A c \in Delivered(BROKER_ON_SUBSCRIBER_REMOVED) :
           \A s \in Range(RecordsUnder(c.seen.subs, c.kwargs["using"])) :
               callback(s, alive) # last.callback
    /\ \A c \in Delivered(BROKER_ON_SUBSCRIBER_COLLECTED) :
           \A s \in Range(RecordsUnder(c.seen.subs, c.kwargs["using"])) :
               s.weak_callback # last.callback
    /\ \A c \in Delivered(BROKER_ON_NAMESPACE_DELETED) :
           /\ ~HasKey(c.seen.subs, c.kwargs["using"])
           /\ c.kwargs["using"] \notin DOMAIN c.seen.sigs
    /\ \A i \in DOMAIN last.calls :
           (last.calls[i].seen.taken /\ last.op \in {"register_subscriber",
                                                    "unregister_subscriber"}) =>
               last.calls[i].kwargs["using"] = last.namespace

\* every flag set and on_notify registered under the key covering every
\* channel: the registration that created "file.save" invoked it on the
\* namespace-created channel and then on the subscriber-added channel
C30_Witness ==
    /\ last.op = "register_subscriber" /\ last.outcome = "ok"
    /\ last.namespace = FILE_SAVE
    /\ Len(last.calls) = 2
    /\ last.calls[1].namespace = BROKER_ON_NAMESPACE_CREATED
    /\ last.calls[2].namespace = BROKER_ON_SUBSCRIBER_ADDED
    /\ last.calls[1].seen.taken /\ last.calls[2].seen.taken
    /\ Lookup(last.calls[1].seen.subs, FILE_SAVE) = <<>>
    /\ Len(Lookup(last.calls[2].seen.subs, FILE_SAVE)) = 1

\* every notification flag of fl is on
NotificationsEnabled(fl) == \A name \in FlagNames : FlagValue(fl, name)

\* in the call that has just returned, every invocation on channel `first` came
\* before every invocation on channel `second`
NotifiedBefore(first, second) ==
    \A i, j \in DOMAIN last'.calls :
        (last'.calls[i].namespace = first /\ last'.calls[j].namespace = second) => i < j

(* C31: with the flags set, on a namespace outside the reserved root,        *)
(* namespace-created is delivered exactly when the registration creates a   *)
(* key that did not exist, and before that call's subscriber-added;         *)
(* subscriber-removed is delivered when the unregistration removes a        *)
(* subscriber; namespace-deleted is delivered exactly when the              *)
(* unregistration removes the last subscriber of the key, and after that    *)
(* call's subscriber-removed; each carries using = the namespace.           *)
C31_LifecycleNotifications ==
    [][(/\ NotificationsEnabled(flags)
        /\ ~IsNotifyNamespace(last'.namespace)
        /\ last'.outcome = "ok") =>
          /\ (/\ last'.op = "register_subscriber"
              /\ HandlersOf(BROKER_ON_NAMESPACE_CREATED) # {}) =>
                 /\ NotifiedOn(BROKER_ON_NAMESPACE_CREATED) <=>
                        ~HasKey(_SUBSCRIBERS, last'.namespace)
                 /\ NotifiedBefore(BROKER_ON_NAMESPACE_CREATED, BROKER_ON_SUBSCRIBER_ADDED)
          /\ (/\ last'.op = "unregister_subscriber"
              /\ HandlersOf(BROKER_ON_NAMESPACE_DELETED) # {}) =>
                 /\ (\E s \in Range(RecordsUnder(_SUBSCRIBERS, last'.namespace)) :
                         callback(s, alive) = last'.callback) =>
                        NotifiedOn(BROKER_ON_SUBSCRIBER_REMOVED)
                 /\ NotifiedOn(BROKER_ON_NAMESPACE_DELETED) <=>
                        /\ \E s \in Range(RecordsUnder(_SUBSCRIBERS, last'.namespace)) :
                               callback(s, alive) = last'.callback
                        /\ \A s \in Range(RecordsUnder(_SUBSCRIBERS, last'.namespace)) :
                               callback(s, alive) = last'.callback
                 /\ NotifiedBefore(BROKER_ON_SUBSCRIBER_REMOVED, BROKER_ON_NAMESPACE_DELETED)
          /\ last'.op \in {"register_subscriber", "unregister_subscriber"} =>
                 \A i \in DOMAIN last'.calls :
                     last'.calls[i].kwargs = [n \in {"using"} |-> last'.namespace]]_vars

\* the records of callable cb under key K before the step
RecordsOf(cb, K) ==
    SelectSeq(RecordsUnder(_SUBSCRIBERS, K), LAMBDA s : s.weak_callback = cb)

\* how many times the call that has just returned invoked subscriber h on
\* `channel` with using = K
TimesNotified(h, channel, K) ==
    Cardinality({i \in DOMAIN last'.calls :
                    /\ last'.calls[i].sub = h
                    /\ last'.calls[i].namespace = channel
                    /\ last'.calls[i].kwargs = [n \in {"using"} |-> K]})

(* C32: when the last owner of a registered callable lets go of it, its      *)
(* records leave the list of every key they were under, the keys, the other *)
(* records and the signature expectations stay as they were, and a          *)
(* subscriber-collected notification with using = the namespace is          *)
(* delivered once per collected record iff on_collected is set and the      *)
(* namespace is outside the reserved root: every live handler of the        *)
(* channel is invoked as many times with using = K as the callable had      *)
(* records under K, and nothing else is invoked.                            *)
C32_CollectionRemovesAndNotifies ==
    [][last'.op = "collect" =>
         /\ Keys(_SUBSCRIBERS') = Keys(_SUBSCRIBERS)
         /\ \A K \in Keys(_SUBSCRIBERS) :
                Lookup(_SUBSCRIBERS', K) =
                    SelectSeq(Lookup(_SUBSCRIBERS, K),
                              LAMBDA s : s.weak_callback # last'.callback)
         /\ _NAMESPACE_SIGNATURES' = _NAMESPACE_SIGNATURES
         /\ last'.outcome = "ok"
         /\ \A i \in DOMAIN last'.calls :
                /\ flags.notify_on_collected
                /\ last'.calls[i].namespace = BROKER_ON_SUBSCRIBER_COLLECTED
                /\ DOMAIN last'.calls[i].kwargs = {"using"}
                /\ ~IsNotifyNamespace(last'.calls[i].kwargs["using"])
                /\ RecordsOf(last'.callback, last'.calls[i].kwargs["using"]) # <<>>
         /\ (/\ flags.notify_on_collected
             /\ Refusing(BROKER_ON_SUBSCRIBER_COLLECTED, {"using"}) = {}) =>
                \A K \in Keys(_SUBSCRIBERS) :
                    ~IsNotifyNamespace(K) =>
                        \A h \in HandlersOf(BROKER_ON_SUBSCRIBER_COLLECTED) :
                            h.weak_callback # last'.callback =>
                                TimesNotified(h, BROKER_ON_SUBSCRIBER_COLLECTED, K) =
                                    Len(RecordsOf(last'.callback, K))]_vars

\* callback1, registered twice under "file.save", was collected with
\* on_collected set: on_notify was invoked twice with using = "file.save", and
\* the key is still there with no record of callback1
C32_Witness ==
    /\ last.op = "collect" /\ last.callback = "callback1"
    /\ Len(last.calls) = 2
    /\ \A i \in DOMAIN last.calls :
           /\ last.calls[i].namespace = BROKER_ON_SUBSCRIBER_COLLECTED
           /\ last.calls[i].sub.weak_callback = "on_notify"
           /\ last.calls[i].kwargs = [n \in {"using"} |-> FILE_SAVE]
    /\ HasKey(_SUBSCRIBERS, FILE_SAVE)
    /\ \A s \in Range(Lookup(_SUBSCRIBERS, FILE_SAVE)) : s.weak_callback # "callback1"

\* the subscribers of the sequence `entry` up to and including the first whose
\* body raises
UpToFirstRaising(entry) ==
    SubSeq(entry, 1,
           CHOOSE n \in 0..Len(entry) :
               /\ \A i \in 1..n : i < n => ~Callable(entry[i].weak_callback).raises
               /\ IF \E i \in DOMAIN entry : Callable(entry[i].weak_callback).raises
                  THEN n > 0 /\ Callable(entry[n].weak_callback).raises
                  ELSE n = Len(entry))

\* emit_async call t, if it has ended, started its own subscribers in its own
\* order up to the first that raised, and ended with that subscriber's error,
\* or normally when none of its subscribers raises
EndedOnItsOwn(t) ==
    t.state = "done" =>
        /\ Starts(t) = UpToFirstRaising(t.entry)
        /\ t.outcome = IF \E s \in Range(t.entry) : Callable(s.weak_callback).raises
                       THEN "Error" ELSE "ok"

(* C33: errors are isolated per call among emit_async calls in flight at the *)
(* same time: a step of one call, the one in which its subscriber raises    *)
(* included, leaves the other call where it stood, and every call that has  *)
(* ended started all of its own subscribers in its own order and ended      *)
(* normally unless one of its own subscribers raised, in which case it      *)
(* stopped at that subscriber with its error.                               *)
C33_ErrorsIsolatedPerCall ==
    [][/\ task' # task => other' = other
       /\ other' # other => task' = task
       /\ EndedOnItsOwn(task')
       /\ EndedOnItsOwn(other')]_vars

\* one emit_async is suspended on a coroutine subscriber after having started
\* it, with a further subscriber still to come, and the other emit_async has
\* just ended with the error its subscriber raised
C33_Witness ==
    /\ task.state = "awaiting"
    /\ Len(task.entry) >= 2
    /\ Len(Starts(task)) = 1
    /\ \A s \in Range(task.entry) : ~Callable(s.weak_callback).raises
    /\ other.state = "done" /\ other.outcome = "Error"
    /\ last.outcome = "Error" /\ last.namespace = other.namespace

(* C34: among the subscribers of equal priority one emit invokes for the     *)
(* emitted namespace, the older registration is invoked first, whichever    *)
(* matching keys the two are under.                                         *)
C34_TiesByRegistrationOrder ==
    last.op = "emit" =>
        \A i, j \in DOMAIN OwnCalls :
            (/\ OwnCalls[i].sub.priority = OwnCalls[j].sub.priority
             /\ OwnCalls[i].sub.seq < OwnCalls[j].sub.seq) => i < j

(* C35: a register_subscriber that raises SignatureMismatchError changes     *)
(* nothing: the list of every key, the expectation of every key (the        *)
(* rejected key keeps its constrained expectation) and the flags are as     *)
(* before the call, and nothing is invoked, whatever the flags; and an emit *)
(* invokes recorded subscribers only, so the rejected one is never invoked. *)
C35_RejectedRegistrationChangesNothing ==
    [][/\ (/\ last'.op = "register_subscriber"
           /\ last'.outcome = "SignatureMismatchError") =>
              /\ UNCHANGED <<_SUBSCRIBERS, _NAMESPACE_SIGNATURES, flags, nextSeq>>
              /\ Constrained(_NAMESPACE_SIGNATURES', last'.namespace)
              /\ last'.calls = <<>>
       /\ last'.op \in {"emit", "emit_async"} =>
              \A i \in DOMAIN last'.calls :
                  last'.calls[i].sub \in AllSubscribers(_SUBSCRIBERS)]_vars

\* on_notify was rejected under "file.save", whose expectation callback1 had
\* set, with every flag set and a live handler under the key covering every
\* notification channel; callback1 is still the only subscriber of the key
C35_Witness ==
    /\ last.op = "register_subscriber"
    /\ last.outcome = "SignatureMismatchError"
    /\ last.namespace = FILE_SAVE /\ last.callback = "on_notify"
    /\ NotificationsEnabled(flags)
    /\ HandlersOf(BROKER_ON_SUBSCRIBER_ADDED) # {}
    /\ HasKey(_SUBSCRIBERS, FILE_SAVE)
    /\ \A s \in Range(Lookup(_SUBSCRIBERS, FILE_SAVE)) : s.weak_callback = "callback1"
    /\ Len(Lookup(_SUBSCRIBERS, FILE_SAVE)) = 1

(* C36: register_subscriber and unregister_subscriber are all-or-nothing     *)
(* when the notification they emit fails: a call that raises anything but   *)
(* SignatureMismatchError leaves the registry and the signature             *)
(* expectations as they were before it.                                     *)
C36_FailedNotificationChangesNothing ==
    [][(/\ last'.op \in {"register_subscriber", "unregister_subscriber"}
        /\ last'.outcome \notin {"ok", "SignatureMismatchError"}) =>
           UNCHANGED <<_SUBSCRIBERS, _NAMESPACE_SIGNATURES>>]_vars

\* the call that has just returned invoked no subscriber twice for one namespace
OncePerNamespace ==
    \A i, j \in DOMAIN last'.calls :
        (/\ last'.calls[i].sub = last'.calls[j].sub
         /\ last'.calls[i].namespace = last'.calls[j].namespace) => i = j

\* every invocation of the call that has just returned was made for one of
\* `namespaces`
InvokedOnlyFor(namespaces) ==
    \A i \in DOMAIN last'.calls : last'.calls[i].namespace \in namespaces

(* C37: the notification cascade is bounded and never nested: a             *)
(* register_subscriber invokes handlers for the namespace-created and the   *)
(* subscriber-added channel only, an unregister_subscriber for the          *)
(* subscriber-removed and the namespace-deleted channel only, an emit for   *)
(* the emitted namespace and the emit channel only, an emit_async for the   *)
(* emitted namespace and the async emit channel only, each subscriber at    *)
(* most once per channel; a collection invokes handlers for the             *)
(* subscriber-collected channel only, at most once per collected record;    *)
(* so no notification emit triggers a notification of its own.              *)
C37_CascadeBounded ==
    [][/\ last'.op = "register_subscriber" =>
              /\ InvokedOnlyFor({BROKER_ON_NAMESPACE_CREATED, BROKER_ON_SUBSCRIBER_ADDED})
              /\ OncePerNamespace
       /\ last'.op = "unregister_subscriber" =>
              /\ InvokedOnlyFor({BROKER_ON_SUBSCRIBER_REMOVED, BROKER_ON_NAMESPACE_DELETED})
              /\ OncePerNamespace
       /\ last'.op = "emit" =>
              /\ InvokedOnlyFor({last'.namespace, BROKER_ON_EMIT})
              /\ OncePerNamespace
       /\ last'.op = "emit_async" =>
              /\ InvokedOnlyFor({last'.namespace, BROKER_ON_EMIT_ASYNC})
              /\ OncePerNamespace
       /\ last'.op = "collect" =>
              /\ InvokedOnlyFor({BROKER_ON_SUBSCRIBER_COLLECTED})
              /\ \A h \in AllSubscribers(_SUBSCRIBERS), K \in Keys(_SUBSCRIBERS) :
                     TimesNotified(h, BROKER_ON_SUBSCRIBER_COLLECTED, K) <=
                         Len(RecordsOf(last'.callback, K))
              /\ \A i \in DOMAIN last'.calls :
                     /\ DOMAIN last'.calls[i].kwargs = {"using"}
                     /\ HasKey(_SUBSCRIBERS, last'.calls[i].kwargs["using"])]_vars

\* with every flag set and on_notify under the key covering every channel, the
\* emit channel included: the registration that created "file.save" made two
\* invocations, one for namespace-created and one for subscriber-added, and
\* none for the emit channel on account of those two emits
C37_Witness ==
    /\ last.op = "register_subscriber" /\ last.outcome = "ok"
    /\ last.namespace = FILE_SAVE
    /\ NotificationsEnabled(flags)
    /\ HandlersOf(BROKER_ON_EMIT) # {}
    /\ Len(last.calls) = 2
    /\ last.calls[1].namespace = BROKER_ON_NAMESPACE_CREATED
    /\ last.calls[2].namespace = BROKER_ON_SUBSCRIBER_ADDED
    /\ last.calls[1].sub = last.calls[2].sub

\* on_emit_all is the only notification flag of fl that is on
OnlyEmitAll(fl) == \A name \in FlagNames : FlagValue(fl, name) <=> name = "on_emit_all"

(* C38: the on_emit_all flag routes to the channel of the mode: with         *)
(* on_emit_all as the only flag set, an emit to a namespace outside the     *)
(* reserved root invokes every live non-coroutine handler of the emit.sync  *)
(* channel once and nothing for the emit.async channel, and an emit_async   *)
(* invokes every live non-coroutine handler of the emit.async channel once, *)
(* no coroutine handler and nothing for the emit.sync channel; and under    *)
(* every flag setting no call invokes anything for the emit.all channel,    *)
(* nor a handler registered under it.                                       *)
C38_EmitAllRoutesPerMode ==
    [][/\ \A i \in DOMAIN last'.calls :
              /\ last'.calls[i].namespace # BROKER_ON_EMIT_ALL
              /\ last'.calls[i].sub.namespace # BROKER_ON_EMIT_ALL
       /\ (/\ OnlyEmitAll(flags)
           /\ last'.op = "emit" /\ last'.outcome = "ok"
           /\ ~IsNotifyNamespace(last'.namespace)) =>
              /\ \A h \in HandlersOf(BROKER_ON_EMIT) :
                     TimesNotified(h, BROKER_ON_EMIT, last'.namespace) = 1
              /\ InvokedOnlyFor({last'.namespace, BROKER_ON_EMIT})
       /\ (/\ OnlyEmitAll(flags)
           /\ last'.op = "emit_async" /\ last'.outcome = "ok"
           /\ ~IsNotifyNamespace(last'.namespace)) =>
              /\ \A h \in HandlersOf(BROKER_ON_EMIT_ASYNC) :
                     TimesNotified(h, BROKER_ON_EMIT_ASYNC, last'.namespace) = 1
              /\ InvokedOnlyFor({last'.namespace, BROKER_ON_EMIT_ASYNC})
              /\ \A i \in DOMAIN last'.calls :
                     last'.calls[i].namespace = BROKER_ON_EMIT_ASYNC =>
                         ~last'.calls[i].sub.is_async]_vars

\* on_emit_all alone is set; on_notify and the coroutine async_callback are
\* under the emit.async channel and a handler is under the emit.all channel:
\* the emit_async to "file.save" invoked on_notify for the emit.async channel
\* and nothing else
C38_Witness ==
    /\ last.op = "emit_async" /\ last.outcome = "ok"
    /\ last.namespace = FILE_SAVE
    /\ OnlyEmitAll(flags)
    /\ \E s \in Range(RecordsUnder(_SUBSCRIBERS, BROKER_ON_EMIT_ASYNC)) :
           s.is_async /\ s.weak_callback \in alive
    /\ \E s \in Range(RecordsUnder(_SUBSCRIBERS, BROKER_ON_EMIT_ALL)) :
           s.weak_callback \in alive
    /\ Len(last.calls) = 1
    /\ last.calls[1].namespace = BROKER_ON_EMIT_ASYNC
    /\ last.calls[1].sub.weak_callback = "on_notify"
    /\ last.calls[1].kwargs = [n \in {"using"} |-> FILE_SAVE]

====
